---------------------------- MODULE Spec2Model ----------------------------
(***************************************************************************)
(* A model of the minimum-biclique-cover repository: the cover validators, *)
(* the MIP formulations (as constraint systems over 0/1 assignments), the  *)
(* bound estimators and the graph store.                                   *)
(*                                                                         *)
(* A graph is a set of edges over the node set Nodes; an edge is a         *)
(* two-element set of nodes (networkx.Graph: undirected, no multi-edges).  *)
(* The external optimizer is a nondeterministic choice: of any assignment  *)
(* where the code reads variable values back, of an exact optimum where    *)
(* the code uses the objective value.                                      *)
(***************************************************************************)
EXTENDS Integers, Sequences, FiniteSets, TLC

\* ------------------------------------------------------------------ bounds
NumNodes == 4
MaxEdges == 6
MaxBicliques == 2
MaxSide == 2

\* ------------------------------------------------------------------ state
VARIABLES
    g,        \* the loaded graph: its edge set
    eattr,    \* the edge attribute "visited" of the loaded graph, per edge
    nattr,    \* the node attribute "weight" of the loaded graph, per node
    op,       \* the operation that ran last
    arg,      \* its input
    ret,      \* its return value
    store,    \* the graph directory: the files written, by name
    report    \* the GraphReport object under construction

vars == <<g, eattr, nattr, op, arg, ret, store, report>>

\* ------------------------------------------------------------------ graphs
Nodes == 1..NumNodes
AllEdges == {e \in SUBSET Nodes : Cardinality(e) = 2}
Graphs == {E \in SUBSET AllEdges : Cardinality(E) <= MaxEdges}

\* An attribute that was never written.
Unset == <<>>

\* The graph directory with no file in it.
NoFiles == {}
NoReport == <<>>

\* networkx Graph.has_edge(u, v)
has_edge(G, u, v) == {u, v} \in G /\ u # v

\* networkx Graph.neighbors(u)
neighbors(G, u) == {v \in Nodes : has_edge(G, u, v)}

Min(S) == CHOOSE x \in S : \A y \in S : x <= y
Max(S) == CHOOSE x \in S : \A y \in S : x >= y

\* A set of nodes as the list the code iterates: in node order.
RECURSIVE NodeList(_)
NodeList(S) == IF S = {} THEN <<>> ELSE <<Min(S)>> \o NodeList(S \ {Min(S)})

\* ------------------------------------------------- check_v_biclique_cover
\* The (u, v) of "for u in A: for v in B", in iteration order.
RECURSIVE PairsOf(_, _)
PairsOf(As, Bs) ==
    IF As = <<>> THEN <<>>
    ELSE [i \in 1..Len(Bs) |-> <<Head(As), Bs[i]>>] \o PairsOf(Tail(As), Bs)

\* The (u, v) of "for bc in bcs: for u in A: for v in B".
RECURSIVE AllPairs(_)
AllPairs(bcs) ==
    IF bcs = <<>> THEN <<>>
    ELSE PairsOf(NodeList(Head(bcs)[1]), NodeList(Head(bcs)[2])) \o AllPairs(Tail(bcs))

\* Lines 92-103: the scan of the pairs, with its early returns.
RECURSIVE ScanPairs(_, _, _)
ScanPairs(G, ps, vis) ==
    IF ps = <<>> THEN [ok |-> TRUE, vis |-> vis]
    ELSE LET u == Head(ps)[1]
             v == Head(ps)[2]
         IN  IF u = v THEN [ok |-> FALSE, vis |-> vis]
             ELSE IF has_edge(G, u, v)
                  THEN ScanPairs(G, Tail(ps), [vis EXCEPT ![{u, v}] = TRUE])
                  ELSE [ok |-> FALSE, vis |-> vis]

\* The validator without its final loop.
AllVisitedSkipped(G, vis) == TRUE

\* Lines 105-108: the final loop over the edges.
AllVisited(G, vis) == \A e \in G : vis[e] = TRUE

check_v_biclique_cover(G, bcs) ==
    LET scan == ScanPairs(G, AllPairs(bcs), [e \in G |-> FALSE])
    IN  [ret |-> scan.ok /\ AllVisited(G, scan.vis), visited |-> scan.vis]

\* ------------------------------------------------------------- find_cover
\* Lines 13-19: the unvisited edges at `vertex`, in neighbour order.
RECURSIVE StarOf(_, _, _, _)
StarOf(G, vertex, nbrs, vis) ==
    IF nbrs = <<>> THEN [list |-> <<>>, vis |-> vis]
    ELSE LET v == Head(nbrs)
             e == {vertex, v}
         IN  IF vis[e] = FALSE
             THEN LET rest == StarOf(G, vertex, Tail(nbrs), [vis EXCEPT ![e] = TRUE])
                  IN  [list |-> <<e>> \o rest.list, vis |-> rest.vis]
             ELSE StarOf(G, vertex, Tail(nbrs), vis)

RECURSIVE CoverLoop(_, _, _)
CoverLoop(G, cover, vis) ==
    IF cover = <<>> THEN [cover |-> <<>>, vis |-> vis]
    ELSE LET star == StarOf(G, Head(cover), NodeList(neighbors(G, Head(cover))), vis)
             rest == CoverLoop(G, Tail(cover), star.vis)
         IN  [cover |-> <<star.list>> \o rest.cover, vis |-> rest.vis]

find_cover(G, vertex_cover_set) ==
    LET r == CoverLoop(G, vertex_cover_set, [e \in G |-> FALSE])
    IN  [ret |-> r.cover, visited |-> r.vis]

\* ------------------------------------------------- the bound estimators
\* ceil(log2(n)) for n >= 1, as np.ceil(np.log2(n)) gives it.
RECURSIVE CeilLog2From(_, _)
CeilLog2From(n, j) == IF 2^j >= n THEN j ELSE CeilLog2From(n, j + 1)
CeilLog2(n) == CeilLog2From(n, 0)

\* floor(log2(n)) for n >= 1.
RECURSIVE FloorLog2From(_, _)
FloorLog2From(n, j) == IF 2^(j + 1) > n THEN j ELSE FloorLog2From(n, j + 1)
FloorLog2(n) == FloorLog2From(n, 0)

MaxCard(Ss) == Max({Cardinality(S) : S \in Ss})
MinCard(Ss) == Min({Cardinality(S) : S \in Ss})

\* networkx.complement(g): the non-adjacent pairs of distinct nodes.
complement(G) == AllEdges \ G

\* networkx.max_weight_matching(g) with unit weights: a maximum matching.
Matchings(G) == {M \in SUBSET G : \A e, f \in M : e # f => e \cap f = {}}
max_weight_matching_len(G) == MaxCard(Matchings(G))

\* max_clique: maximize sum(x) with x[u] + x[v] <= 1 on the complement's edges.
CliquesOf(G) == {S \in SUBSET Nodes : \A e \in complement(G) : ~(e \subseteq S)}
max_clique(G) == MaxCard(CliquesOf(G))

\* The chromatic number, the upper end of the Lovasz sandwich.
ProperColourings(G, k) == {c \in [Nodes -> 1..k] : \A e \in G : \A u, v \in e : u # v => c[u] # c[v]}
ChromaticNumber(G) == Min({k \in 1..NumNodes : ProperColourings(G, k) # {}})

\* np.round(compute_lovasz_number(complement(g))): theta of the complement lies
\* between the clique number and the chromatic number of g (the sandwich
\* theorem); the semidefinite solver is external, so the rounded value is any
\* integer of that interval.
lovasz_numbers(G) == max_clique(G)..ChromaticNumber(G)

\* compute_lb_and_get_edges_by_independent_edges_method, lines 134-138: the
\* pairs of edges that get a (9c) constraint.  combinations(g.edges, 2) gives
\* two different edges e1 = (a, b) and e2 = (c, d); the test is the same for
\* either orientation of either edge, so one orientation is taken.
\* The test of line 137 with its first alternative only.
Conflict9cFirstOnly(G, e1, e2) ==
    LET a == Min(e1)
        b == Max(e1)
        c == Min(e2)
        d == Max(e2)
    IN  has_edge(G, a, d) /\ has_edge(G, b, c)

Conflict9c(G, e1, e2) ==
    LET a == Min(e1)
        b == Max(e1)
        c == Min(e2)
        d == Max(e2)
    IN  \/ has_edge(G, a, d) /\ has_edge(G, b, c)
        \/ has_edge(G, a, c) /\ has_edge(G, b, d)

\* The feasible 0/1 assignments of y (the (9b) rows y[e] <= 1 exclude nothing).
IndependentEdgeSets(G) ==
    {S \in SUBSET G : \A e1, e2 \in S : e1 # e2 => ~Conflict9c(G, e1, e2)}

\* The optimizer's possible answers: (objVal, edges) of any optimum.
compute_lb_and_get_edges_by_independent_edges_method(G) ==
    LET best == MaxCard(IndependentEdgeSets(G))
    IN  {[lb |-> best, edges |-> S] : S \in {T \in IndependentEdgeSets(G) : Cardinality(T) = best}}

compute_lb_by_independent_edges_method(G) == MaxCard(IndependentEdgeSets(G))

\* count_cliques(g): the maximal cliques of the complement, i.e. the maximal
\* independent sets of g (no timeout and no size limit is reached here).
IndependentSets(G) == {S \in SUBSET Nodes : \A e \in G : ~(e \subseteq S)}
count_cliques(G) ==
    Cardinality({S \in IndependentSets(G) : \A T \in IndependentSets(G) : S \subseteq T => S = T})

\* get_vertex_cover_solution: minimize sum(x) with x[u] + x[v] >= 1 per edge.
\* A node set that every endpoint of an edge is in or next to.
IsDominating(G, S) == \A e \in G : \A u \in e : u \in S \/ neighbors(G, u) \cap S # {}

IsVertexCover(G, S) == \A e \in G : e \cap S # {}

VertexCovers(G) == {S \in SUBSET Nodes : IsVertexCover(G, S)}

\* The optimizer's possible answers (t, objVal): any minimum vertex cover.
get_vertex_cover_solution(G) ==
    LET best == MinCard(VertexCovers(G))
    IN  {[t |-> S, val |-> best] : S \in {T \in VertexCovers(G) : Cardinality(T) = best}}

vertex_cover(G) == MinCard(VertexCovers(G))

\* networkx.power(g, 2) without the edges of g: the pairs the loop of
\* merge_stars does not skip at line 212.
DistanceTwoPairs(G) ==
    {p \in complement(G) : \E q \in Nodes : \A u \in p : has_edge(G, u, q)}

\* set(g.edges(u)): the edges at u.
edges_at(G, u) == {e \in G : u \in e}

common_neighbors(G, u, v) == neighbors(G, u) \cap neighbors(G, v)

\* Lines 211-223 for the pairs of g2.edges in the order `pairs`; `cover` is the
\* set of nodes whose 'cover' attribute (on g2, a new graph) is True.
RECURSIVE MergeLoop(_, _, _, _)
MergeLoop(G, pairs, cover, acc) ==
    IF pairs = <<>> THEN [cover |-> cover, bicliques |-> acc]
    ELSE LET u == Head(pairs)[1]
             v == Head(pairs)[2]
         IN  IF has_edge(G, u, v) \/ u \notin cover \/ v \notin cover
             THEN MergeLoop(G, Tail(pairs), cover, acc)
             ELSE LET uInV == neighbors(G, u) \subseteq neighbors(G, v)
                      vInU == neighbors(G, v) \subseteq neighbors(G, u)
                      b1 == edges_at(G, u) \cup {{q, v} : q \in common_neighbors(G, u, v)}
                      b2 == edges_at(G, v) \cup {{q, u} : q \in common_neighbors(G, u, v)}
                      acc1 == IF uInV THEN Append(acc, b1) ELSE acc
                      acc2 == IF vInU THEN Append(acc1, b2) ELSE acc1
                      cover1 == IF uInV THEN cover \ {u} ELSE cover
                      cover2 == IF vInU THEN cover1 \ {v} ELSE cover1
                  IN  MergeLoop(G, Tail(pairs), cover2, acc2)

\* Lines 224-227: one star per node still marked.
RECURSIVE StarsOf(_, _)
StarsOf(G, nodes) ==
    IF nodes = <<>> THEN <<>> ELSE <<edges_at(G, Head(nodes))>> \o StarsOf(G, Tail(nodes))

\* merge_stars without its last loop, lines 224-227.
merge_stars_merged_only(G, t, pairs) ==
    LET r == MergeLoop(G, pairs, t, <<>>)
    IN  r.bicliques

\* merge_stars(g, t) with g2.edges iterated in the order `pairs`.
merge_stars(G, t, pairs) ==
    LET r == MergeLoop(G, pairs, t, <<>>)
    IN  r.bicliques \o StarsOf(G, NodeList(r.cover))

\* The orders in which g2.edges can present the pairs: every pair once, in
\* either orientation.
Orientations(p) == {o \in p \X p : o[1] # o[2]}

RECURSIVE PairOrders(_)
PairOrders(P) ==
    IF P = {} THEN {<<>>}
    ELSE UNION {{<<o>> \o rest : o \in Orientations(p), rest \in PairOrders(P \ {p})} : p \in P}

\* ------------------------------------- find_bc_lower_bound / upper_bound
None == "None"
ZeroDivisionError == "ZeroDivisionError"
TypeError == "TypeError"

LBMethods == {"MATCH", "LOVASZ", "CLIQUE", "INDEPENDENT_EDGES", "MAXIMAL_INDEPENDENT_SET"}
UBMethods == {"NUMBER", "VERTEX", "MERGE_STARS"}

\* np.ceil(m_len ** 2 / e_len)
MatchBound(m_len, e_len) == (m_len * m_len + e_len - 1) \div e_len

\* The outcome of a call: a returned value or a raised exception.
Returned(b) == [raised |-> "", value |-> b]
Raised(e) == [raised |-> e, value |-> FALSE]

\* The outcomes of find_bc_lower_bound(g, method, memory_limit=...): the
\* values it can return, or the exception it raises.
find_bc_lower_bound(G, method, memory_limit) ==
    CASE method = "MATCH" ->
            IF Cardinality(G) = 0 THEN {Raised(ZeroDivisionError)}
            ELSE {Returned(MatchBound(max_weight_matching_len(G), Cardinality(G)))}
      [] method = "LOVASZ" -> {Returned(CeilLog2(n)) : n \in lovasz_numbers(G)}
      [] method = "CLIQUE" -> {Returned(CeilLog2(max_clique(G)))}
      [] method = "INDEPENDENT_EDGES" ->
            {Returned(compute_lb_by_independent_edges_method(G))}
      [] method = "MAXIMAL_INDEPENDENT_SET" ->
            IF memory_limit = None THEN {Raised(TypeError)}
            ELSE {Returned(CeilLog2(count_cliques(G)))}

\* n + 1 - np.floor(np.log2(n))
NumberBound(n) == n + 1 - FloorLog2(n)

\* merge_stars(g) with t=None: any optimal vertex cover, any order of g2.edges.
merge_stars_results(G) ==
    {merge_stars(G, s.t, pairs) :
        s \in get_vertex_cover_solution(G), pairs \in PairOrders(DistanceTwoPairs(G))}

\* The values find_bc_upper_bound(g, method) can return.
find_bc_upper_bound(G, method) ==
    CASE method = "NUMBER" -> {NumberBound(NumNodes)}
      [] method = "VERTEX" -> {vertex_cover(G)}
      [] method = "MERGE_STARS" -> {Len(bicliques) : bicliques \in merge_stars_results(G)}

\* -------------------------------------------------------- heuristic_greedy
\* The edges a feasible (X, Y) of the greedy model selects: L = {v : X[v,0] = 1}
\* and R = {v : X[v,1] = 1} are disjoint, no pair of L x R is a non-edge, and
\* Y[u,v] = 1 exactly on L x R.
GreedyBicliques(G) ==
    {b \in [L : SUBSET Nodes, R : SUBSET Nodes] :
        /\ b.L \cap b.R = {}
        /\ \A u \in b.L, v \in b.R : has_edge(G, u, v)}

EdgesBetween(L, R) == {{u, v} : u \in L, v \in R}

\* The runs of the loop at lines 260-289 from the weights w (W: the edges of
\* weight 1), the optimizer returning any optimum: the lists it can return.
RECURSIVE GreedyRuns(_, _)
GreedyRuns(G, W) ==
    LET value(b) == Cardinality(EdgesBetween(b.L, b.R) \cap W)
        best == Max({value(b) : b \in GreedyBicliques(G)})
    IN  IF best = 0 THEN {<<>>}
        ELSE UNION {{<<EdgesBetween(b.L, b.R)>> \o r : r \in GreedyRuns(G, W \ EdgesBetween(b.L, b.R))} :
                        b \in {c \in GreedyBicliques(G) : value(c) = best}}

\* heuristic_greedy(H): works on G = H.copy(), whose weights start at 1.
heuristic_greedy(H) == GreedyRuns(H, H)

\* ------------------------------------------------------------------ inputs
Sides == {S \in SUBSET Nodes : S # {} /\ Cardinality(S) <= MaxSide}
BicliqueInputs == Sides \X Sides

RECURSIVE SeqsUpTo(_, _)
SeqsUpTo(S, n) ==
    IF n = 0 THEN {<<>>}
    ELSE LET shorter == SeqsUpTo(S, n - 1)
         IN  shorter \cup {Append(s, x) : s \in {t \in shorter : Len(t) = n - 1}, x \in S}

CoverInputs == SeqsUpTo(BicliqueInputs, MaxBicliques)

\* Lists of distinct nodes: a vertex cover as vertex_cover.solve returns it.
NodeLists == {s \in SeqsUpTo(Nodes, NumNodes) : \A i, j \in 1..Len(s) : i # j => s[i] # s[j]}

\* ------------------------------------------------------------ SpecCover
\* A freshly loaded graph carries no "visited" and no "weight" attribute.
InitCover ==
    /\ g \in Graphs
    /\ eattr = [e \in g |-> Unset]
    /\ nattr = [v \in Nodes |-> Unset]
    /\ op = "load"
    /\ arg = <<>>
    /\ ret = <<>>
    /\ store = NoFiles
    /\ report = NoReport

\* CheckCover with the scanned edges taken out of the graph instead of marked.
CheckCoverRemovingEdges ==
    /\ op = "load"
    /\ \E bcs \in CoverInputs :
          LET r == check_v_biclique_cover(g, bcs)
              left == {e \in g : r.visited[e] = FALSE}
          IN  /\ g' = left
              /\ eattr' = [e \in left |-> <<FALSE>>]
              /\ ret' = r.ret
              /\ arg' = bcs
    /\ op' = "check_v_biclique_cover"
    /\ UNCHANGED <<nattr, store, report>>

CheckCover ==
    /\ op = "load"
    /\ \E bcs \in CoverInputs :
          LET r == check_v_biclique_cover(g, bcs)
          IN  /\ eattr' = [e \in g |-> <<r.visited[e]>>]
              /\ ret' = r.ret
              /\ arg' = bcs
    /\ op' = "check_v_biclique_cover"
    /\ UNCHANGED <<g, nattr, store, report>>

FindCover ==
    /\ op = "load"
    /\ \E t \in NodeLists :
          LET r == find_cover(g, t)
          IN  /\ eattr' = [e \in g |-> <<r.visited[e]>>]
              /\ ret' = r.ret
              /\ arg' = t
    /\ op' = "find_cover"
    /\ UNCHANGED <<g, nattr, store, report>>

\* merge_stars writes the 'cover' attribute on g2 = nx.power(g, 2), a new graph.
MergeStars ==
    /\ op = "load"
    /\ \E bicliques \in merge_stars_results(g) : ret' = bicliques
    /\ op' = "merge_stars"
    /\ arg' = <<>>
    /\ UNCHANGED <<g, eattr, nattr, store, report>>

\* heuristic_greedy writes the weight "w" on G = H.copy().
HeuristicGreedy ==
    /\ op = "load"
    /\ \E bcs \in heuristic_greedy(g) : ret' = bcs
    /\ op' = "heuristic_greedy"
    /\ arg' = <<>>
    /\ UNCHANGED <<g, eattr, nattr, store, report>>

\* MBCModel.__init__: the variables and constraints are built for
\* range(upper_bound) bicliques; the graph is only read.
BuildModel ==
    /\ op = "load"
    /\ \E ub_method \in UBMethods :
          \E k \in find_bc_upper_bound(g, ub_method) :
              /\ arg' = ub_method
              /\ ret' = [upper_bound |-> k]
    /\ op' = "build_model"
    /\ UNCHANGED <<g, eattr, nattr, store, report>>

\* The relaxation values y_val[v, j, 0] + y_val[v, j, 1] of a node, in halves.
Weights == 0..2

\* indep_callback: at a MIPNODE with an optimal relaxation, for every biclique
\* index j the node weights are written on model._g, the graph of the model;
\* the weights of the last index stay.  (The cuts go to the optimizer.)
IndepCallback ==
    /\ op = "load"
    /\ \E where \in {"MIPNODE", "MIPSOL"}, k \in find_bc_upper_bound(g, "VERTEX"), w \in [Nodes -> Weights] :
          /\ arg' = [where |-> where, k |-> k]
          /\ nattr' = IF where = "MIPNODE" /\ k > 0
                      THEN [v \in Nodes |-> <<w[v]>>] ELSE nattr
    /\ op' = "indep_callback"
    /\ ret' = None
    /\ UNCHANGED <<g, eattr, store, report>>

NextCover ==
    \/ CheckCover
    \/ FindCover
    \/ MergeStars
    \/ HeuristicGreedy
    \/ BuildModel
    \/ IndepCallback

SpecCover == InitCover /\ [][NextCover]_vars

\* ------------------------------------------------------------------- C1
IsBicliquePair(G, A, B) == \A u \in A, v \in B : u # v /\ {u, v} \in G
CoveredBy(e, bcs) == \E i \in 1..Len(bcs) : \E u \in bcs[i][1], v \in bcs[i][2] : e = {u, v}
IsVBicliqueCover(G, bcs) ==
    /\ \A i \in 1..Len(bcs) : IsBicliquePair(G, bcs[i][1], bcs[i][2])
    /\ \A e \in G : CoveredBy(e, bcs)

\* C1: check_v_biclique_cover(G, bcs) returns True if and only if every pair
\* (A, B) of bcs is a complete bipartite subgraph of G (u # v and {u, v} an
\* edge for all u in A, v in B) and every edge of G lies in some A x B; it
\* returns False in every other case.
C1_CheckIffCover ==
    op = "check_v_biclique_cover" =>
        /\ ret \in BOOLEAN
        /\ ret = IsVBicliqueCover(g, arg)

\* A graph of five edges that two bicliques cover, accepted by the validator.
C1_Witness ==
    /\ op = "check_v_biclique_cover"
    /\ ret = TRUE
    /\ Cardinality(g) = 5
    /\ Len(arg) = 2

\* ------------------------------------------------------------------ C10
\* C10 as stated: after any operation the loaded graph has the attributes it
\* had when it was loaded (none).
C10_AttributesUntouched ==
    /\ eattr = [e \in g |-> Unset]
    /\ nattr = [v \in Nodes |-> Unset]

\* C10 amended: no operation changes the edge set of the loaded graph;
\* check_v_biclique_cover and find_cover write only the edge attribute
\* "visited", indep_callback writes only the node attribute "weight", and
\* merge_stars, heuristic_greedy and the model construction write nothing on
\* the loaded graph.
C10_FrameEffect ==
    [][/\ g' = g
       /\ op' \in {"check_v_biclique_cover", "find_cover"} =>
             /\ nattr' = nattr
             /\ \A e \in g : eattr'[e] \in {<<TRUE>>, <<FALSE>>}
       /\ op' = "indep_callback" => eattr' = eattr
       /\ op' \in {"merge_stars", "heuristic_greedy", "build_model"} =>
             eattr' = eattr /\ nattr' = nattr]_vars

\* The validator has run and left "visited" = True on an edge of the graph.
C10_Witness ==
    /\ op = "check_v_biclique_cover"
    /\ \E e \in g : eattr[e] = <<TRUE>>

\* ------------------------------------------------------------------- C2
\* MBCModel.is_biclique_cover (base_model.py).  A dataframe is a list of
\* columns, one per biclique, each mapping every node of the graph to 0 (not
\* in the biclique), 1 (first partition) or 2 (second partition).
MaxColumns == 2

Columns == [Nodes -> {0, 1, 2}]
DataFrames == SeqsUpTo(Columns, MaxColumns)

\* Line 171: df.any(axis=1).all(), every row has a non-zero cell.
EveryRowAny(df) == \A u \in Nodes : \E b \in 1..Len(df) : df[b][u] # 0

\* Lines 174-178: partition1 x partition2 of one column are all edges.
ColumnIsBiclique(G, col) ==
    \A u \in Nodes, v \in Nodes : (col[u] = 1 /\ col[v] = 2) => has_edge(G, u, v)

is_biclique_cover(G, df) ==
    IF ~EveryRowAny(df) THEN FALSE
    ELSE \A b \in 1..Len(df) : ColumnIsBiclique(G, df[b])

IsBicliqueCover ==
    /\ op = "load"
    /\ \E df \in DataFrames :
          /\ arg' = df
          /\ ret' = is_biclique_cover(g, df)
    /\ op' = "is_biclique_cover"
    /\ UNCHANGED <<g, eattr, nattr, store, report>>

NextDf == IsBicliqueCover

SpecDf == InitCover /\ [][NextDf]_vars

EdgeInColumn(e, col) == \E u \in e, v \in e : col[u] = 1 /\ col[v] = 2

\* C2: is_biclique_cover(df) returns True if and only if every edge of
\* self.g has its endpoints in opposite partitions of at least one column and
\* in every column each partition-1 node is adjacent to each partition-2
\* node; it returns False otherwise, in particular when some edge is covered
\* by no column.
C2_ValidatorIffCover ==
    op = "is_biclique_cover" =>
        ret = (/\ \A e \in g : \E b \in 1..Len(arg) : EdgeInColumn(e, arg[b])
               /\ \A b \in 1..Len(arg) : ColumnIsBiclique(g, arg[b]))

\* ------------------------------------------------------------------- C3
\* NaturalModel._check_biclique_cover and ExtendedModel._check_biclique_cover
\* (model.py) with util.is_biclique.  A solver assignment is a list of
\* columns, one per biclique index: z is the value of z[i] in halves (2 is
\* 1.0; the natural model's z is continuous), x the set of (u, v) with
\* x[u, v, i].X == 1.
MaxCheckEdges == 3

CheckGraphs == {E \in Graphs : Cardinality(E) <= MaxCheckEdges}

\* graph.edges yields each edge once, as (u, v) in node order.
EdgeKey(e) == <<Min(e), Max(e)>>
\* nx.DiGraph(g).edges: both directions of every edge.
DirectedEdges(G) == {<<u, v>> \in Nodes \X Nodes : has_edge(G, u, v)}

\* nx.is_bipartite(graph.edge_subgraph(edges))
is_bipartite(S) ==
    \E X \in SUBSET (UNION S) : \A e \in S : Cardinality(e \cap X) = 1

\* Nodes reachable from the nodes R along edges of S.
RECURSIVE Reach(_, _)
Reach(S, R) ==
    LET R2 == R \cup UNION {e \in S : e \cap R # {}}
    IN  IF R2 = R THEN R ELSE Reach(S, R2)

\* nx.is_connected of a non-null edge subgraph.
is_connected(S) ==
    LET n == CHOOSE v \in UNION S : TRUE
    IN  Reach(S, {n}) = UNION S

\* util.is_biclique(graph, edges), lines 319-333.  nx.bipartite.sets raises
\* on the null graph and on a disconnected graph.
is_biclique(G, S) ==
    IF ~is_bipartite(S) THEN Returned(FALSE)
    ELSE IF S = {} THEN Raised("NetworkXPointlessConcept")
    ELSE IF ~is_connected(S) THEN Raised("AmbiguousSolution")
    ELSE LET set1 == CHOOSE X \in SUBSET (UNION S) :
                        \A e \in S : Cardinality(e \cap X) = 1
             set2 == (UNION S) \ set1
         IN  Returned(\A u \in set1, v \in set2 : {u, v} \in S)

\* model.py line 105 and line 219: the edges of column i.
NaturalEdges(G, col) == {e \in G : EdgeKey(e) \in col.x}
ExtendedEdges(G, col) ==
    {e \in G : \E u \in e, v \in e : u # v /\ <<u, v>> \in col.x}

\* Lines 102-107 and 216-221: the loop over the biclique indices from i on.
RECURSIVE CheckColumns(_, _, _)
CheckColumns(G, sets, i) ==
    IF i > Len(sets) THEN Returned(TRUE)
    ELSE IF sets[i].z # 2 THEN CheckColumns(G, sets, i + 1)
    ELSE LET r == is_biclique(G, sets[i].edges)
         IN  IF r.raised # "" THEN r
             ELSE IF ~r.value THEN Returned(FALSE)
             ELSE CheckColumns(G, sets, i + 1)

\* Lines 99-100 and 212-214: any(...) over all edges and all indices.
AnyAssigned(sets) == \E i \in 1..Len(sets) : sets[i].edges # {}

check_biclique_cover(G, sets) ==
    IF ~AnyAssigned(sets) THEN Returned(FALSE)
    ELSE CheckColumns(G, sets, 1)

NaturalSets(G, sol) ==
    [i \in 1..Len(sol) |-> [z |-> sol[i].z, edges |-> NaturalEdges(G, sol[i])]]
ExtendedSets(G, sol) ==
    [i \in 1..Len(sol) |-> [z |-> sol[i].z, edges |-> ExtendedEdges(G, sol[i])]]

\* All lists of exactly n elements of S.
SeqsOfLen(S, n) == [1..n -> S]

NaturalColumns(G) == [z : {0, 1, 2}, x : SUBSET {EdgeKey(e) : e \in G}]
ExtendedColumns(G) == [z : {0, 2}, x : SUBSET DirectedEdges(G)]

InitCheck ==
    /\ g \in CheckGraphs
    /\ eattr = [e \in g |-> Unset]
    /\ nattr = [v \in Nodes |-> Unset]
    /\ op = "load"
    /\ arg = <<>>
    /\ ret = <<>>
    /\ store = NoFiles
    /\ report = NoReport

NaturalCheck ==
    /\ op = "load"
    /\ \E k \in find_bc_upper_bound(g, "VERTEX") :
       \E sol \in SeqsOfLen(NaturalColumns(g), k) :
          /\ arg' = NaturalSets(g, sol)
          /\ ret' = check_biclique_cover(g, NaturalSets(g, sol))
    /\ op' = "NaturalModel._check_biclique_cover"
    /\ UNCHANGED <<g, eattr, nattr, store, report>>

ExtendedCheck ==
    /\ op = "load"
    /\ \E k \in find_bc_upper_bound(g, "VERTEX") :
       \E sol \in SeqsOfLen(ExtendedColumns(g), k) :
          /\ arg' = ExtendedSets(g, sol)
          /\ ret' = check_biclique_cover(g, ExtendedSets(g, sol))
    /\ op' = "ExtendedModel._check_biclique_cover"
    /\ UNCHANGED <<g, eattr, nattr, store, report>>

NextCheck ==
    \/ NaturalCheck
    \/ ExtendedCheck

SpecCheck == InitCheck /\ [][NextCheck]_vars

\* The edge set S is the edge set of a complete bipartite graph.
IsCompleteBipartite(S) ==
    \E L \in SUBSET Nodes : \E R \in SUBSET (Nodes \ L) :
        S = {{u, v} : <<u, v>> \in L \X R}

\* C3: both _check_biclique_cover methods return True only when every edge
\* of the graph has value 1 for at least one biclique index and the edge set
\* of every selected biclique (z[i] = 1) is complete bipartite; if any single
\* edge of the graph is assigned to no biclique they return False.
C3_CheckOnlyCovers ==
    op \in {"NaturalModel._check_biclique_cover",
            "ExtendedModel._check_biclique_cover"} =>
        /\ ret = Returned(TRUE) =>
              /\ \A e \in g : \E i \in 1..Len(arg) : e \in arg[i].edges
              /\ \A i \in 1..Len(arg) :
                    arg[i].z = 2 => IsCompleteBipartite(arg[i].edges)
        /\ (\E e \in g : \A i \in 1..Len(arg) : e \notin arg[i].edges)
              => ret = Returned(FALSE)

\* ------------------------------------------------------------------- C4
\* ExtendedModel (model.py lines 160-196).  One column per biclique index i:
\* z is z[i], y0 = {u : y[u, i, 0] = 1}, y1 = {v : y[v, i, 1] = 1} and
\* x = {(u, v) : x[u, v, i] = 1}, all variables binary (5h).
MaxExtendedEdges == 5

ExtendedGraphs == {E \in Graphs : Cardinality(E) <= MaxExtendedEdges}

B(p) == IF p THEN 1 ELSE 0

\* 5b: x[u, v, i] <= y[u, i, 0] and x[u, v, i] <= y[v, i, 1] on directed edges
C5b(G, col) ==
    \A a \in DirectedEdges(G) :
        /\ B(a \in col.x) <= B(a[1] \in col.y0)
        /\ B(a \in col.x) <= B(a[2] \in col.y1)

\* 5c: y[u, i, 0] + y[v, i, 1] <= z[i] + x[u, v, i] on directed edges
C5c(G, col) ==
    \A a \in DirectedEdges(G) :
        B(a[1] \in col.y0) + B(a[2] \in col.y1) <= col.z + B(a \in col.x)

\* 5d: y[u, i, 0] + y[u, i, 1] <= z[i]
C5d(col) == \A u \in Nodes : B(u \in col.y0) + B(u \in col.y1) <= col.z

\* The model without the non-edge constraints.
C5fOmitted(G, col) == TRUE

\* 5f: for every non-adjacent pair, both orientations
C5f(G, col) ==
    \A u \in Nodes, v \in Nodes :
        (u < v /\ ~has_edge(G, u, v)) =>
            /\ B(u \in col.y0) + B(v \in col.y1) <= col.z
            /\ B(v \in col.y0) + B(u \in col.y1) <= col.z

RECURSIVE SumOver(_, _, _)
\* sum of f[i] for i in lo..hi
SumOver(f, lo, hi) == IF lo > hi THEN 0 ELSE f[lo] + SumOver(f, lo + 1, hi)

\* 5e: sum_i x[u, v, i] + x[v, u, i] >= 1 for every edge
C5e(G, sol) ==
    \A e \in G :
        LET u == Min(e)
            v == Max(e)
            t == [i \in 1..Len(sol) |-> B(<<u, v>> \in sol[i].x) + B(<<v, u>> \in sol[i].x)]
        IN  SumOver(t, 1, Len(sol)) >= 1

\* 5g: z[i] >= z[i + 1]
C5g(sol) == \A i \in 1..(Len(sol) - 1) : sol[i].z >= sol[i + 1].z

ExtendedFeasible(G, sol) ==
    /\ \A i \in 1..Len(sol) :
          C5b(G, sol[i]) /\ C5c(G, sol[i]) /\ C5d(sol[i]) /\ C5f(G, sol[i])
    /\ C5e(G, sol)
    /\ C5g(sol)

\* The columns that satisfy the constraints on a single index (5b, 5c, 5d, 5f).
ExtendedFeasibleColumns(G) ==
    UNION {
        {c \in [z : {h.z}, y0 : {h.y0}, y1 : {h.y1}, x : SUBSET DirectedEdges(G)] :
            C5b(G, c) /\ C5c(G, c)} :
        h \in {h \in [z : {0, 1}, y0 : SUBSET Nodes, y1 : SUBSET Nodes] :
                 C5d(h) /\ C5f(G, h)}}

\* The lists of n columns of cols with non-increasing z (5g).
RECURSIVE OrderedLists(_, _)
OrderedLists(cols, n) ==
    IF n = 0 THEN {<<>>}
    ELSE UNION {
        {Append(s, c) : c \in {c \in cols : Len(s) = 0 \/ s[Len(s)].z >= c.z}} :
        s \in OrderedLists(cols, n - 1)}

\* Every assignment of the k columns the optimizer accepts as feasible.
ExtendedSolutions(G, k) ==
    UNION {{sol \in OrderedLists(cols, k) : ExtendedFeasible(G, sol)} :
           cols \in {ExtendedFeasibleColumns(G)}}

\* 5a: sum(z)
SumZ(sol) == SumOver([i \in 1..Len(sol) |-> sol[i].z], 1, Len(sol))

\* upper_bound with the vertex-cover based methods; bicliques is
\* range(upper_bound).
ModelUBMethods == {"VERTEX", "MERGE_STARS"}
upper_bound(G) == UNION {find_bc_upper_bound(G, m) : m \in ModelUBMethods}

\* Any point of the feasible region of the extended model.
ExtendedSolution ==
    /\ op = "load"
    /\ \E k \in upper_bound(g) :
       \E sol \in ExtendedSolutions(g, k) :
          /\ arg' = sol
          /\ ret' = [status |-> "FEASIBLE", objVal |-> SumZ(sol)]
    /\ op' = "ExtendedModel.solution"
    /\ UNCHANGED <<g, eattr, nattr, store, report>>

\* m.optimize() run to optimality: a feasible point of minimum sum(z).
ExtendedOptimize ==
    /\ op = "load"
    /\ \E k \in upper_bound(g) :
       \E sols \in {ExtendedSolutions(g, k)} :
          IF sols = {}
          THEN /\ arg' = <<>>
               /\ ret' = [status |-> "INFEASIBLE", objVal |-> -1]
          ELSE \E best \in {Min({SumZ(sol) : sol \in sols})} :
               \E sol \in {sol \in sols : SumZ(sol) = best} :
                  /\ arg' = sol
                  /\ ret' = [status |-> "OPTIMAL", objVal |-> best]
    /\ op' = "ExtendedModel.optimize"
    /\ UNCHANGED <<g, eattr, nattr, store, report>>

\* The bicliques of G with two non-empty sides.
Bicliques(G) == {b \in GreedyBicliques(G) : b.L # {} /\ b.R # {}}

\* The assignment of the k columns that stands for a list of bicliques:
\* column i has z = 1, y0 = L, y1 = R and x = 1 on the directed edges of L x R.
ExtendedAssignment(G, cover, k) ==
    [i \in 1..k |->
        IF i <= Len(cover)
        THEN [z |-> 1, y0 |-> cover[i].L, y1 |-> cover[i].R,
              x |-> {a \in DirectedEdges(G) : a[1] \in cover[i].L /\ a[2] \in cover[i].R}]
        ELSE [z |-> 0, y0 |-> {}, y1 |-> {}, x |-> {}]]

\* A list of at most upper_bound bicliques handed to the model as an assignment.
ExtendedFromCover ==
    /\ op = "load"
    /\ \E k \in upper_bound(g) :
       \E cover \in SeqsUpTo(Bicliques(g), k) :
          /\ arg' = cover
          /\ ret' = [feasible |-> ExtendedFeasible(g, ExtendedAssignment(g, cover, k))]
    /\ op' = "ExtendedModel.from_cover"
    /\ UNCHANGED <<g, eattr, nattr, store, report>>

InitExt ==
    /\ g \in ExtendedGraphs
    /\ eattr = [e \in g |-> Unset]
    /\ nattr = [v \in Nodes |-> Unset]
    /\ op = "load"
    /\ arg = <<>>
    /\ ret = <<>>
    /\ store = NoFiles
    /\ report = NoReport

NextExt ==
    \/ ExtendedSolution
    \/ ExtendedOptimize
    \/ ExtendedFromCover

SpecExt == InitExt /\ [][NextExt]_vars

\* Whether the edges `rest` can be covered by n bicliques of G.
RECURSIVE CoverableBy(_, _, _)
CoverableBy(G, rest, n) ==
    \/ rest = {}
    \/ /\ n > 0
       /\ LET e == CHOOSE e \in rest : TRUE
          IN  \E b \in Bicliques(G) :
                 /\ e \in EdgesBetween(b.L, b.R)
                 /\ CoverableBy(G, rest \ EdgesBetween(b.L, b.R), n - 1)

\* The minimum number of bicliques that cover the edges of G.
BicliqueCoverNumber(G) == Min({n \in 0..Cardinality(G) : CoverableBy(G, G, n)})

\* C4: in every assignment satisfying 5b-5g, for each i with z[i] = 1 the
\* sets L_i = y0 and R_i = y1 are disjoint with every pair of L_i x R_i an
\* edge, and every edge lies in L_i x R_i for some i; every biclique cover
\* with at most upper_bound bicliques is a feasible assignment; and the
\* minimum of sum(z) is the minimum biclique cover number.
C4_ExtendedSoundComplete ==
    /\ op = "ExtendedModel.solution" =>
          /\ \A i \in 1..Len(arg) :
                arg[i].z = 1 =>
                    /\ arg[i].y0 \cap arg[i].y1 = {}
                    /\ \A u \in arg[i].y0, v \in arg[i].y1 : has_edge(g, u, v)
          /\ \A e \in g : \E i \in 1..Len(arg) : e \in EdgesBetween(arg[i].y0, arg[i].y1)
    /\ op = "ExtendedModel.from_cover" =>
          ((\A e \in g : \E i \in 1..Len(arg) : e \in EdgesBetween(arg[i].L, arg[i].R))
              => ret.feasible)
    /\ op = "ExtendedModel.optimize" =>
          /\ ret.status = "OPTIMAL"
          /\ ret.objVal = BicliqueCoverNumber(g)

\* A feasible assignment of the four-cycle-or-denser graph whose first column
\* is a biclique with two nodes on each side.
C4_Witness ==
    /\ op = "ExtendedModel.solution"
    /\ Cardinality(g) >= 4
    /\ Len(arg) >= 2
    /\ Cardinality(arg[1].y0) = 2
    /\ Cardinality(arg[1].y1) = 2
    /\ arg[2].z = 1

\* ------------------------------------------------------------------- C5
\* NaturalModel (model.py lines 36-89).  One column per biclique index i:
\* x = {(u, v) : x[u, v, i] = 1} over graph.edges (binary) and z = 2 * z[i],
\* z[i] being continuous in [0, 1] (4j); every inequality below is the
\* constraint of the code multiplied by two.

\* util.var_swap(x, u, v, i): x[u, v, i] or, failing that, x[v, u, i].
var_swap(G, col, u, v) ==
    IF {u, v} \in G THEN B(EdgeKey({u, v}) \in col.x) ELSE None

\* combinations(g.edges, r=2) takes every pair of edges once.
EdgeBefore(e, f) ==
    \/ Min(e) < Min(f)
    \/ Min(e) = Min(f) /\ Max(e) < Max(f)

\* MBCModel.get_disjoint_edges: (e, f, cr1, cr2) for the disjoint pairs.
get_disjoint_edges(G) ==
    {<<e, f,
       B(has_edge(G, Min(e), Max(f))) + B(has_edge(G, Min(f), Max(e))),
       B(has_edge(G, Min(e), Min(f))) + B(has_edge(G, Max(e), Max(f)))>> :
        <<e, f>> \in {p \in G \X G : EdgeBefore(p[1], p[2]) /\ p[1] \cap p[2] = {}}}

\* nx.simple_cycles(graph, length_bound=3) filtered to length 3: the triangles.
Triangles(G) ==
    {t \in SUBSET Nodes : Cardinality(t) = 3 /\ \A u \in t, v \in t : u # v => has_edge(G, u, v)}

\* 4b: x[u, v, i] <= z[i]
C4b(G, col) == \A e \in G : 2 * var_swap(G, col, Min(e), Max(e)) <= col.z

\* 4c: sum_i x[u, v, i] >= 1 for every edge
C4c(G, sol) ==
    \A e \in G :
        SumOver([i \in 1..Len(sol) |-> var_swap(G, sol[i], Min(e), Max(e))], 1, Len(sol)) >= 1

\* 4e: the three edges of a triangle sum to at most 2 * z[i]
C4e(G, col) ==
    \A t \in Triangles(G) :
        LET c == NodeList(t)
        IN  2 * (var_swap(G, col, c[1], c[2]) + var_swap(G, col, c[2], c[3])
                 + var_swap(G, col, c[3], c[1])) <= 2 * col.z

\* The model without the constraints for two edges with no crossing pair.
C4dOmitted(G, disjoint_edges, col) == TRUE

\* 4d: cr1 < 2 and cr2 < 2
C4d(G, disjoint_edges, col) ==
    \A q \in disjoint_edges :
        LET a == Min(q[1])  b == Max(q[1])  c == Min(q[2])  d == Max(q[2])
        IN  (q[3] < 2 /\ q[4] < 2) =>
                2 * (var_swap(G, col, a, b) + var_swap(G, col, c, d)) <= col.z

\* 4f: cr1 == 2 and cr2 < 2
C4f(G, disjoint_edges, col) ==
    \A q \in disjoint_edges :
        LET a == Min(q[1])  b == Max(q[1])  c == Min(q[2])  d == Max(q[2])
            lhs == 2 * (var_swap(G, col, a, b) + var_swap(G, col, c, d))
        IN  (q[3] = 2 /\ q[4] < 2) =>
                /\ lhs <= col.z + 2 * var_swap(G, col, a, d)
                /\ lhs <= col.z + 2 * var_swap(G, col, b, c)

\* 4g: cr1 < 2 and cr2 == 2
C4g(G, disjoint_edges, col) ==
    \A q \in disjoint_edges :
        LET a == Min(q[1])  b == Max(q[1])  c == Min(q[2])  d == Max(q[2])
            lhs == 2 * (var_swap(G, col, a, b) + var_swap(G, col, c, d))
        IN  (q[3] < 2 /\ q[4] = 2) =>
                /\ lhs <= col.z + 2 * var_swap(G, col, a, c)
                /\ lhs <= col.z + 2 * var_swap(G, col, b, d)

\* 4h: cr1 == 2 and cr2 == 2
C4h(G, disjoint_edges, col) ==
    \A q \in disjoint_edges :
        LET a == Min(q[1])  b == Max(q[1])  c == Min(q[2])  d == Max(q[2])
            lhs == 2 * (var_swap(G, col, a, b) + var_swap(G, col, c, d))
        IN  (q[3] = 2 /\ q[4] = 2) =>
                /\ lhs <= col.z + 2 * (var_swap(G, col, a, c) + var_swap(G, col, a, d))
                /\ lhs <= col.z + 2 * (var_swap(G, col, b, c) + var_swap(G, col, b, d))

\* 4i: z[i] >= z[i + 1]
C4i(sol) == \A i \in 1..(Len(sol) - 1) : sol[i].z >= sol[i + 1].z

NaturalColumnFeasible(G, disjoint_edges, col) ==
    /\ C4b(G, col) /\ C4e(G, col)
    /\ C4d(G, disjoint_edges, col) /\ C4f(G, disjoint_edges, col)
    /\ C4g(G, disjoint_edges, col) /\ C4h(G, disjoint_edges, col)

NaturalFeasible(G, disjoint_edges, sol) ==
    /\ \A i \in 1..Len(sol) : NaturalColumnFeasible(G, disjoint_edges, sol[i])
    /\ C4c(G, sol)
    /\ C4i(sol)

\* Every assignment of the k columns the optimizer accepts as feasible: the
\* lists of columns that satisfy the constraints on a single index, with 4c
\* and 4i.
NaturalSolutions(G, k) ==
    UNION {{sol \in OrderedLists(cols, k) : C4c(G, sol) /\ C4i(sol)} :
           cols \in {{c \in NaturalColumns(G) :
                        NaturalColumnFeasible(G, get_disjoint_edges(G), c)}}}

\* Any point of the feasible region of the natural model.
NaturalSolution ==
    /\ op = "load"
    /\ \E k \in upper_bound(g) :
       \E sol \in NaturalSolutions(g, k) :
          /\ arg' = sol
          /\ ret' = [status |-> "FEASIBLE", objVal |-> SumZ(sol)]
    /\ op' = "NaturalModel.solution"
    /\ UNCHANGED <<g, eattr, nattr, store, report>>

\* The assignment that stands for a list of bicliques: column i has z = 1
\* and x = 1 on the edges between L and R.
NaturalAssignment(G, cover, k) ==
    [i \in 1..k |->
        IF i <= Len(cover)
        THEN [z |-> 2, x |-> {EdgeKey(e) : e \in EdgesBetween(cover[i].L, cover[i].R)}]
        ELSE [z |-> 0, x |-> {}]]

\* The bicliques of G, each once: the side with the least node first.
UndirectedBicliques(G) == {b \in Bicliques(G) : Min(b.L) < Min(b.R)}

\* A list of at most upper_bound bicliques handed to the model as an assignment.
NaturalFromCover ==
    /\ op = "load"
    /\ \E k \in upper_bound(g) :
       \E disjoint_edges \in {get_disjoint_edges(g)} :
       \E cover \in SeqsUpTo(UndirectedBicliques(g), k) :
          /\ arg' = cover
          /\ ret' = [feasible |->
                        NaturalFeasible(g, disjoint_edges, NaturalAssignment(g, cover, k))]
    /\ op' = "NaturalModel.from_cover"
    /\ UNCHANGED <<g, eattr, nattr, store, report>>

NextNat ==
    \/ NaturalSolution
    \/ NaturalFromCover

SpecNat == InitCover /\ [][NextNat]_vars

\* C5: in every assignment satisfying 4b-4i the edge set {e : x[e, i] = 1} of
\* each biclique index i is the edge set of a complete bipartite subgraph of
\* the graph and every edge is in at least one such set; every biclique cover
\* with at most upper_bound bicliques is feasible.
C5_NaturalSoundComplete ==
    /\ op = "NaturalModel.solution" =>
          /\ \A i \in 1..Len(arg) :
                /\ NaturalEdges(g, arg[i]) \subseteq g
                /\ IsCompleteBipartite(NaturalEdges(g, arg[i]))
          /\ \A e \in g : \E i \in 1..Len(arg) : e \in NaturalEdges(g, arg[i])
    /\ op = "NaturalModel.from_cover" =>
          ((\A e \in g : \E i \in 1..Len(arg) : e \in EdgesBetween(arg[i].L, arg[i].R))
              => ret.feasible)

\* A feasible assignment of the complete graph on four nodes whose first
\* column is a four-cycle: two disjoint edges with cr1 = cr2 = 2 in one biclique.
C5_Witness ==
    /\ op = "NaturalModel.solution"
    /\ Cardinality(g) = 6
    /\ Cardinality(arg[1].x) = 4

\* -------------------------------------------------------------- C6, C7
\* find_bc_lower_bound, find_bc_upper_bound (bc_bounds.py), each optimizer
\* returning an exact optimum.  memory_limit is None (the default) or given.
MemoryLimits == {None, "4"}

FindBounds ==
    /\ op = "load"
    /\ \E lb_method \in LBMethods, ub_method \in UBMethods, memory_limit \in MemoryLimits :
       \E lb \in find_bc_lower_bound(g, lb_method, memory_limit) :
       \E ub \in find_bc_upper_bound(g, ub_method) :
          /\ arg' = <<lb_method, ub_method, memory_limit>>
          /\ ret' = [lb |-> lb, ub |-> Returned(ub)]
    /\ op' = "find_bc_bounds"
    /\ UNCHANGED <<g, eattr, nattr, store, report>>

\* The vertex-cover upper bound of the graph and of one with fewer edges on
\* the same nodes.
VertexBounds ==
    /\ op = "load"
    /\ \E h \in SUBSET g :
       \E ub_h \in find_bc_upper_bound(h, "VERTEX") :
       \E ub_g \in find_bc_upper_bound(g, "VERTEX") :
          /\ arg' = h
          /\ ret' = [sub |-> ub_h, full |-> ub_g]
    /\ op' = "find_bc_upper_bound"
    /\ UNCHANGED <<g, eattr, nattr, store, report>>

NextBounds ==
    \/ FindBounds
    \/ VertexBounds

SpecBounds == InitCover /\ [][NextBounds]_vars

\* C6: for every graph and every pair (lb_method, ub_method),
\* find_bc_lower_bound(g, lb_method) returns a value and that value is less
\* than or equal to the value find_bc_upper_bound(g, ub_method) returns.
C6_LowerAtMostUpper ==
    (op = "find_bc_bounds" /\ arg[3] = None) =>
        /\ ret.lb.raised = ""
        /\ ret.lb.value <= ret.ub.value

\* C7: for graphs G' and G on the same nodes with edges(G') a subset of
\* edges(G), find_bc_upper_bound(G', VERTEX) <= find_bc_upper_bound(G, VERTEX).
C7_VertexBoundMonotone ==
    op = "find_bc_upper_bound" => (arg \subseteq g => ret.sub <= ret.full)

\* A proper subgraph with a strictly smaller bound.
C7_Witness ==
    /\ op = "find_bc_upper_bound"
    /\ arg # g
    /\ arg # {}
    /\ ret.sub < ret.full

\* ------------------------------------------------------------------- C8
\* save_graph_in_store, get_graph_in_store, build_graph_from_file and
\* get_file_name_and_extension (util.py).  A graph is its node list, in
\* insertion order, and its edge set.  A file name is a list of characters;
\* a number, "gml" and "txt" are single items, having no "." in them.
MaxStoreNodes == 3
MaxNameLen == 2
MaxFiles == 2

NodeNames == 0..(MaxStoreNodes - 1)
NameChars == {"a", "."}
GraphNames == {s \in SeqsUpTo(NameChars, MaxNameLen) : Len(s) >= 1}

Range(s) == {s[i] : i \in 1..Len(s)}

StoreNodeLists ==
    {s \in SeqsUpTo(NodeNames, MaxStoreNodes) : \A i, j \in 1..Len(s) : i # j => s[i] # s[j]}

StoreGraphs ==
    UNION {[nodes : {ns}, edges : SUBSET {e \in SUBSET Range(ns) : Cardinality(e) = 2}] :
           ns \in StoreNodeLists}

\* fname.split(sep='.', maxsplit=1) at the last "." instead of the first.
RECURSIVE SplitAtLastDot(_, _)
SplitAtLastDot(fname, i) ==
    IF i = 0 THEN <<fname, None>>
    ELSE IF fname[i] = "." THEN <<SubSeq(fname, 1, i - 1), SubSeq(fname, i + 1, Len(fname))>>
    ELSE SplitAtLastDot(fname, i - 1)

get_file_name_and_extension_at_last_dot(fname) == SplitAtLastDot(fname, Len(fname))

\* Lines 28-31: split at the first "." from position i on.
RECURSIVE SplitAtFirstDot(_, _)
SplitAtFirstDot(fname, i) ==
    IF i > Len(fname) THEN <<fname, None>>
    ELSE IF fname[i] = "." THEN <<SubSeq(fname, 1, i - 1), SubSeq(fname, i + 1, Len(fname))>>
    ELSE SplitAtFirstDot(fname, i + 1)

get_file_name_and_extension(fname) == SplitAtFirstDot(fname, 1)

\* Lines 177-181: the name of the file written for g_name.
StoreFileName(G, g_name) ==
    g_name \o <<"_", ToString(Len(G.nodes))>> \o <<"_", ToString(Cardinality(G.edges))>>
           \o <<".", "gml">>

\* nx.write_gml: node i of the list gets id i - 1 and label str(node); an
\* edge is written as the ids of its ends.
IdOf(G, v) == (CHOOSE i \in 1..Len(G.nodes) : G.nodes[i] = v) - 1

write_gml(G) ==
    [node |-> [i \in 1..Len(G.nodes) |-> [id |-> i - 1, label |-> ToString(G.nodes[i])]],
     edge |-> {{IdOf(G, v) : v \in e} : e \in G.edges}]

\* nx.read_gml(fpath, label='id'): the nodes are the ids, the label stays a
\* node attribute.
read_gml(content) ==
    [nodes |-> [i \in 1..Len(content.node) |-> content.node[i].id],
     edges |-> content.edge,
     label |-> [i \in 1..Len(content.node) |-> content.node[i].label]]

isfile(files, fname) == \E f \in files : f.name = fname

\* build_graph_from_file, lines 45-68, for a file of the graph directory.
build_graph_from_file(files, fname) ==
    IF ~isfile(files, fname) THEN Raised("ValueError")
    ELSE LET ext == get_file_name_and_extension(fname)[2]
         IN  IF ext = <<"gml">>
             THEN Returned(read_gml((CHOOSE f \in files : f.name = fname).content))
             ELSE Raised("ValueError")

InitStore ==
    /\ g \in StoreGraphs
    /\ eattr = [e \in g.edges |-> Unset]
    /\ nattr = [v \in Range(g.nodes) |-> Unset]
    /\ op = "load"
    /\ arg = <<>>
    /\ ret = <<>>
    /\ store = NoFiles
    /\ report = NoReport

\* save_graph_in_store(g, g_name, replace=replace)
SaveGraphInStore ==
    /\ op \in {"load", "save_graph_in_store"}
    /\ Cardinality(store) < MaxFiles
    /\ \E g_name \in GraphNames, replace \in BOOLEAN :
          LET fname == StoreFileName(g, g_name)
              file == [name |-> fname, content |-> write_gml(g)]
          IN  /\ arg' = [g_name |-> g_name, fname |-> fname]
              /\ IF isfile(store, fname) /\ ~replace
                 THEN /\ ret' = Raised("FileExistsError")
                      /\ store' = store
                 ELSE /\ ret' = Returned(TRUE)
                      /\ store' = {f \in store : f.name # fname} \cup {file}
    /\ op' = "save_graph_in_store"
    /\ UNCHANGED <<g, eattr, nattr, report>>

\* get_graph_in_store(filename) for the file the last save wrote.
GetGraphInStore ==
    /\ op = "save_graph_in_store"
    /\ ret = Returned(TRUE)
    /\ ret' = build_graph_from_file(store, arg.fname)
    /\ op' = "get_graph_in_store"
    /\ UNCHANGED <<g, eattr, nattr, arg, store, report>>

NextStore ==
    \/ SaveGraphInStore
    \/ GetGraphInStore

SpecStore == InitStore /\ [][NextStore]_vars

\* C8 as stated: for every graph name, loading the file that was saved gives
\* a graph with the node set, the edge set and the adjacency of g.
C8_RoundTripEveryName ==
    op = "get_graph_in_store" =>
        /\ ret.raised = ""
        /\ Range(ret.value.nodes) = Range(g.nodes)
        /\ ret.value.edges = g.edges

\* C8 amended: for a graph name without ".", loading the file that was saved
\* gives the graph on the nodes 0..n-1 where node i is the (i+1)-th node of g
\* and carries its name as the "label" attribute, with the edges of g between
\* the corresponding nodes (the node set and edge set of g itself when the
\* nodes of g are 0..n-1 in that order); for a name with "." the load raises
\* ValueError.
C8_RoundTrip ==
    op = "get_graph_in_store" =>
        IF "." \in Range(arg.g_name)
        THEN ret = Raised("ValueError")
        ELSE /\ ret.raised = ""
             /\ ret.value.nodes = [i \in 1..Len(g.nodes) |-> i - 1]
             /\ ret.value.label = [i \in 1..Len(g.nodes) |-> ToString(g.nodes[i])]
             /\ \A i, j \in 1..Len(g.nodes) :
                   ({i - 1, j - 1} \in ret.value.edges) = ({g.nodes[i], g.nodes[j]} \in g.edges)
             /\ Cardinality(ret.value.edges) = Cardinality(g.edges)
             /\ g.nodes = [i \in 1..Len(g.nodes) |-> i - 1] =>
                   /\ Range(ret.value.nodes) = Range(g.nodes)
                   /\ ret.value.edges = g.edges

\* A three-node path whose nodes are not numbered in order, saved under a
\* name without "." and loaded again.
C8_Witness ==
    /\ op = "get_graph_in_store"
    /\ arg.g_name = <<"a", "a">>
    /\ g.nodes = <<2, 0, 1>>
    /\ Cardinality(g.edges) = 2
    /\ ret.raised = ""

\* ------------------------------------------------------------------- C9
\* MBCModel.solve, _post_solve and get_bicliques (base_model.py).  The
\* concrete model is any subclass: its solution is any value of z[b] and of
\* y[u, v, b] on the directed edges, one column [z, y] per biclique index.
Statuses == {"OPTIMAL", "TIME_LIMIT", "INFEASIBLE", "INTERRUPTED"}

\* solve() returning None, and returning a value.
Absent == <<>>
Value(x) == <<x>>
\* solve() ending in an exception.
Throws(e) == <<"raise", e>>

\* self.g.edges in order.
RECURSIVE EdgeList(_)
EdgeList(G) ==
    IF G = {} THEN <<>>
    ELSE LET e == CHOOSE e \in G : \A f \in G : f = e \/ EdgeBefore(e, f)
         IN  <<e>> \o EdgeList(G \ {e})

\* Lines 142-151 for one biclique b with z[b].X == 1: the cells of column b
\* after the edges `edges`, starting from `cells`.
RECURSIVE FillColumn(_, _, _)
FillColumn(edges, y, cells) ==
    IF edges = <<>> THEN cells
    ELSE LET u == Min(Head(edges))
             v == Max(Head(edges))
             c1 == IF <<u, v>> \in y THEN [cells EXCEPT ![u] = 1, ![v] = 2] ELSE cells
             c2 == IF <<v, u>> \in y THEN [c1 EXCEPT ![v] = 1, ![u] = 2] ELSE c1
         IN  FillColumn(Tail(edges), y, c2)

\* Line 140: one column for every b with z[b].X == 1, in order.
RECURSIVE SelectedColumns(_, _)
SelectedColumns(sol, i) ==
    IF i > Len(sol) THEN <<>>
    ELSE IF sol[i].z = 1 THEN <<sol[i]>> \o SelectedColumns(sol, i + 1)
    ELSE SelectedColumns(sol, i + 1)

get_bicliques(G, sol) ==
    LET cols == SelectedColumns(sol, 1)
    IN  [b \in 1..Len(cols) |-> FillColumn(EdgeList(G), cols[b].y, [u \in Nodes |-> 0])]

\* _write_headers
LogHeaders(G) == <<"GRAPH", "NODES", ToString(NumNodes), "EDGES", ToString(Cardinality(G))>>

\* _post_solve, lines 103-115: what is written to log_res.
PostSolveLog(G, status, sol) ==
    CASE status = "OPTIMAL" ->
            <<"IS BICLIQUE COVER?",
              IF is_biclique_cover(G, get_bicliques(G, sol)) THEN "Y" ELSE "N">>
      [] status = "TIME_LIMIT" -> <<"MODEL REACHED TIME LIMIT">>
      [] status = "INFEASIBLE" -> <<"MODEL HAS BEEN MARKED AS UNFEASIBLE">>
      [] OTHER -> <<"STATUS CODE", status>>

\* solve() returning the objective also when the time limit was reached.
solve_return_unless_infeasible(status, objVal) ==
    IF status = "INFEASIBLE" THEN Absent ELSE Value(objVal)

\* Lines 239-241
solve_return(status, objVal) ==
    IF status # "OPTIMAL" THEN Absent ELSE Value(objVal)

SolveColumns(G) == [z : {0, 1}, y : SUBSET DirectedEdges(G)]

\* _pre_solve, lines 95-97: lower_bound is 1, so z[0].lb = 1 is set; with no
\* biclique index (upper_bound 0) z has no entry 0.
pre_solve(k) == IF k = 0 THEN "KeyError" ELSE ""

\* MBCModel(g, ..., dir_logs=...).solve() with the optimizer ending in `status`
\* with the solution `sol`.
Solve ==
    /\ op = "load"
    /\ \E logging \in BOOLEAN, k \in find_bc_upper_bound(g, "VERTEX") :
          IF pre_solve(k) # ""
          THEN /\ arg' = [logging |-> logging, status |-> "LOADED", df |-> <<>>, objVal |-> 0]
               /\ store' = IF logging
                           THEN {[name |-> "result.log", content |-> LogHeaders(g)]}
                           ELSE store
               /\ ret' = Throws(pre_solve(k))
          ELSE \E status \in Statuses :
               \E sol \in IF status = "OPTIMAL"
                          THEN {s \in SeqsOfLen(SolveColumns(g), k) : s[1].z = 1}
                          ELSE {<<>>} :
                  /\ arg' = [logging |-> logging, status |-> status,
                             df |-> get_bicliques(g, sol), objVal |-> SumZ(sol)]
                  /\ store' = IF logging
                              THEN {[name |-> "result.log",
                                     content |-> LogHeaders(g) \o PostSolveLog(g, status, sol)]}
                              ELSE store
                  /\ ret' = solve_return(status, SumZ(sol))
    /\ op' = "solve"
    /\ UNCHANGED <<g, eattr, nattr, report>>

NextSolve == Solve

SpecSolve == InitCheck /\ [][NextSolve]_vars

Verdict(b) == <<"IS BICLIQUE COVER?", IF b THEN "Y" ELSE "N">>

\* C9 as stated: whenever the optimizer has run, solve() returns None exactly
\* when the status is not OPTIMAL, and otherwise the objective of a solution
\* that is_biclique_cover has checked and confirmed.
C9_ResultIsVerifiedCover ==
    (op = "solve" /\ arg.status # "LOADED") =>
        /\ (ret = Absent) = (arg.status # "OPTIMAL")
        /\ ret # Absent =>
              /\ ret = Value(arg.objVal)
              /\ \E f \in store : f.content = LogHeaders(g) \o Verdict(TRUE)
              /\ is_biclique_cover(g, arg.df)

\* C9 amended: solve() returns None exactly when the status is not OPTIMAL
\* and the objective value otherwise; is_biclique_cover runs only when
\* logging is on and the status is OPTIMAL, and its verdict, Y or N, is only
\* written to the result log.  On a graph without edges upper_bound is 0 and
\* solve() raises KeyError in _pre_solve before optimizing.
C9_ResultFollowsStatus ==
    op = "solve" =>
        /\ (arg.status = "LOADED") = (g = {})
        /\ arg.status = "LOADED" => ret = Throws("KeyError")
        /\ arg.status # "LOADED" => (ret = Absent) = (arg.status # "OPTIMAL")
        /\ arg.status = "OPTIMAL" => ret = Value(arg.objVal)
        /\ ~arg.logging => store = NoFiles
        /\ (arg.logging /\ arg.status = "OPTIMAL") =>
              store = {[name |-> "result.log",
                        content |-> LogHeaders(g) \o Verdict(is_biclique_cover(g, arg.df))]}
        /\ (arg.logging /\ arg.status # "OPTIMAL") =>
              \A f \in store : \A i \in 1..Len(f.content) : f.content[i] # "IS BICLIQUE COVER?"

\* An optimal solution that the validator rejects and solve() returns all the
\* same, with the verdict N in the log.
C9_Witness ==
    /\ op = "solve"
    /\ arg.status = "OPTIMAL"
    /\ arg.logging
    /\ ret = Value(2)
    /\ \E f \in store : f.content = LogHeaders(g) \o Verdict(FALSE)

\* ------------------------------------------------------------ GraphReport
\* util.py, class GraphReport.  A report object is the record of its fields:
\* _data and _props are dictionaries (functions over the keys present), and
\* _rows is absent (<<>>) until _add_property assigns it.
MaxRows == 2
MaxSaves == 1

RuntimeError == "RuntimeError"
ValueError == "ValueError"
AttributeError == "AttributeError"
KeyError == "KeyError"
FileNotFoundError == "FileNotFoundError"
NoDataToSave == "No data to save."
NotAllFilled == "Not all properties have been filled"

\* The outcome of a method call: the object afterwards and what was raised.
Done(r) == [report |-> r, raised |-> "", msg |-> ""]
Fails(r, e, m) == [report |-> r, raised |-> e, msg |-> m]

\* d[k] = v on a dictionary: the key is added when it is missing.
SetItem(d, k, v) == [x \in DOMAIN d \cup {k} |-> IF x = k THEN v ELSE d[x]]
\* all(d.values())
AllValues(d) == \A k \in DOMAIN d : d[k]
\* f'{p_name}_time'
TimeColumn(p_name) == p_name \o "_time"

\* __init__, lines 342-350.
GraphReport(name) ==
    [name |-> name,
     _data |-> [c \in {"graph", "n_nodes", "n_edges"} |-> <<>>],
     _props |-> [c \in {} |-> FALSE],
     _finished_setup |-> FALSE,
     _rows |-> <<>>]

\* _add_property, lines 352-359.
_add_property(r, p_name, add_time_property) ==
    IF p_name \in DOMAIN r._props THEN r
    ELSE LET d1 == SetItem(r._data, p_name, <<>>)
             d2 == IF add_time_property THEN SetItem(d1, TimeColumn(p_name), <<>>) ELSE d1
         IN  [r EXCEPT !._data = d2,
                       !._props = SetItem(r._props, p_name, FALSE),
                       !._rows = <<0>>]

\* add_property, lines 369-371.
add_property(r, p_name, add_time_property) ==
    IF r._finished_setup
    THEN Fails(r, RuntimeError, "Property definition phase already ended.")
    ELSE Done(_add_property(r, p_name, add_time_property))

\* The loop of add_properties, lines 383-384, from the i-th name on.
RECURSIVE AddEach(_, _, _, _)
AddEach(r, props, i, add_time_property) ==
    IF i > Len(props) THEN r
    ELSE AddEach(_add_property(r, props[i], add_time_property), props, i + 1, add_time_property)

\* add_properties, lines 381-384.
add_properties(r, props, add_time_property) ==
    IF r._finished_setup
    THEN Fails(r, RuntimeError, "Property definition phase already ended.")
    ELSE Done(AddEach(r, props, 1, add_time_property))

\* _reset_props, lines 386-388.
_reset_props(r) == [r EXCEPT !._props = [p \in DOMAIN r._props |-> FALSE]]

\* add_graph_data, lines 400-408; G is a record of the node and edge sets.
\* self._rows += 1 reads the attribute first: AttributeError when
\* _add_property never ran.
add_graph_data(r, G, g_name) ==
    IF r._finished_setup /\ ~AllValues(r._props)
    THEN Fails(r, RuntimeError, NotAllFilled)
    ELSE IF r._finished_setup /\ r._rows = <<>>
    THEN Fails(r, AttributeError, "_rows")
    ELSE LET r1 == IF r._finished_setup
                   THEN _reset_props([r EXCEPT !._rows = <<r._rows[1] + 1>>])
                   ELSE r
             d  == [c \in DOMAIN r1._data |->
                       CASE c = "graph"   -> Append(r1._data[c], g_name)
                         [] c = "n_nodes" -> Append(r1._data[c], Cardinality(G.nodes))
                         [] c = "n_edges" -> Append(r1._data[c], Cardinality(G.edges))
                         [] OTHER         -> r1._data[c]]
         IN  Done([r1 EXCEPT !._finished_setup = TRUE, !._data = d])

\* add_property_values, lines 419-428.  The value is appended (line 423)
\* before the time is looked at (lines 424-427).
add_property_values(r, p_name, p_value, p_time) ==
    IF ~r._finished_setup
    THEN Fails(r, RuntimeError, "Property definition has not ended yet.")
    ELSE IF p_name \notin DOMAIN r._data
    THEN Fails(r, ValueError, "not defined")
    ELSE LET r1 == [r EXCEPT !._data[p_name] = Append(@, p_value)]
         IN  IF p_time # None /\ TimeColumn(p_name) \notin DOMAIN r1._data
             THEN Fails(r1, KeyError, TimeColumn(p_name))
             ELSE LET r2 == IF p_time # None
                            THEN [r1 EXCEPT !._data[TimeColumn(p_name)] = Append(@, p_time)]
                            ELSE r1
                  IN  IF p_time = None /\ TimeColumn(p_name) \in DOMAIN r2._props
                      THEN Fails(r2, ValueError, "requires corresponding time")
                      ELSE Done([r2 EXCEPT !._props = SetItem(r2._props, p_name, TRUE)])

\* DataFrame(data=self._data): pandas refuses columns of unequal length.
SameLength(data) == \A c, d \in DOMAIN data : Len(data[c]) = Len(data[d])

\* get_report_data, lines 454-458: the outcome, with the frame as value.
get_report_data(r) ==
    IF ~r._finished_setup \/ DOMAIN r._data = {}
    THEN [raised |-> RuntimeError, msg |-> NoDataToSave, value |-> <<>>]
    ELSE IF ~AllValues(r._props)
    THEN [raised |-> RuntimeError, msg |-> NotAllFilled, value |-> <<>>]
    ELSE IF ~SameLength(r._data)
    THEN [raised |-> ValueError, msg |-> "All arrays must be of the same length", value |-> <<>>]
    ELSE [raised |-> "", msg |-> "", value |-> <<r._data>>]

\* min(len(lst) for lst in self._data.values())
MinLength(data) ==
    CHOOSE n \in {Len(data[c]) : c \in DOMAIN data} :
        \A c \in DOMAIN data : n <= Len(data[c])

\* _cleanup_rows, lines 461-466.
_cleanup_rows(r) ==
    LET min_length == MinLength(r._data)
    IN  [r EXCEPT !._data = [c \in DOMAIN r._data |-> SubSeq(r._data[c], 1, min_length)],
                  !._props = [p \in DOMAIN r._props |-> TRUE]]

\* The name of the count-th candidate of save_csv, lines 498 and 502.
CsvName(report_name, count) ==
    IF count = 0 THEN report_name \o ".csv"
    ELSE report_name \o "-" \o ToString(count) \o ".csv"

\* The candidate taken without asking whether it is a file.
FreePathUnchecked(files, report_name, count) == CsvName(report_name, count)

\* The loop of save_csv, lines 500-503.
RECURSIVE FreePath(_, _, _)
FreePath(files, report_name, count) ==
    IF isfile(files, CsvName(report_name, count))
    THEN FreePath(files, report_name, count + 1)
    ELSE CsvName(report_name, count)

\* save_csv, lines 485-504, on the reports directory fs (whether it exists,
\* and its files): the object, the directory and the path written.
save_csv(r, fs, create_dir, replace, cleanup) ==
    LET r1 == IF cleanup THEN _cleanup_rows(r) ELSE r
        df_data == get_report_data(r1)
    IN  IF df_data.raised # ""
        THEN [report |-> r1, fs |-> fs, raised |-> df_data.raised, msg |-> df_data.msg,
              save_path |-> <<>>]
        ELSE IF ~fs.isdir /\ ~create_dir
        THEN [report |-> r1, fs |-> fs, raised |-> FileNotFoundError,
              msg |-> "Directory does not exist", save_path |-> <<>>]
        ELSE LET save_path == IF replace THEN CsvName(r1.name, 0)
                              ELSE FreePath(fs.files, r1.name, 0)
                 file == [name |-> save_path, content |-> df_data.value[1]]
             IN  [report |-> r1,
                  fs |-> [isdir |-> TRUE,
                          files |-> {f \in fs.files : f.name # save_path} \cup {file}],
                  raised |-> "", msg |-> "", save_path |-> <<save_path>>]

\* The reports directory, the report names, the graphs and the cell values
\* the report operations are exercised with.
ReportName == "r"
OldFrame == [c \in {"graph"} |-> <<"old">>]
OldFiles == {[name |-> CsvName(ReportName, i), content |-> OldFrame] : i \in 0..1}
ReportGraphs == {[nodes |-> {1, 2}, edges |-> {{1, 2}}]}
ReportGraphNames == {"a"}
PropNames == {"k", "k_time"}
ValueNames == PropNames \cup {"graph", "q"}
PropValues == {"x"}
PropTimes == {None, "t"}

Outcome(res) == [raised |-> res.raised, msg |-> res.msg]

InitReport ==
    /\ g = {}
    /\ eattr = Unset
    /\ nattr = Unset
    /\ op = "GraphReport"
    /\ arg = <<>>
    /\ ret = <<>>
    /\ \E isdir \in BOOLEAN : \E files \in SUBSET OldFiles :
          /\ ~isdir => files = {}
          /\ store = [isdir |-> isdir, files |-> files]
    /\ report = GraphReport(ReportName)

AddProperty ==
    /\ \E p_name \in PropNames, add_time_property \in BOOLEAN :
          LET res == add_property(report, p_name, add_time_property)
          IN  /\ op' = "add_property"
              /\ arg' = <<>>
              /\ report' = res.report
              /\ ret' = Outcome(res)
    /\ UNCHANGED <<g, eattr, nattr, store>>

AddProperties ==
    /\ \E props \in SeqsUpTo(PropNames, 2), add_time_property \in BOOLEAN :
          LET res == add_properties(report, props, add_time_property)
          IN  /\ op' = "add_properties"
              /\ arg' = <<>>
              /\ report' = res.report
              /\ ret' = Outcome(res)
    /\ UNCHANGED <<g, eattr, nattr, store>>

AddGraphData ==
    /\ Len(report._data["graph"]) < MaxRows
    /\ report._rows # <<>> => report._rows[1] < MaxRows
    /\ \E G \in ReportGraphs, g_name \in ReportGraphNames :
          LET res == add_graph_data(report, G, g_name)
          IN  /\ op' = "add_graph_data"
              /\ arg' = [g_name |-> g_name]
              /\ report' = res.report
              /\ ret' = Outcome(res)
    /\ UNCHANGED <<g, eattr, nattr, store>>

AddPropertyValues ==
    /\ \E p_name \in ValueNames, p_value \in PropValues, p_time \in PropTimes :
          /\ p_name \in DOMAIN report._data => Len(report._data[p_name]) < MaxRows
          /\ TimeColumn(p_name) \in DOMAIN report._data =>
                 Len(report._data[TimeColumn(p_name)]) < MaxRows
          /\ LET res == add_property_values(report, p_name, p_value, p_time)
             IN  /\ op' = "add_property_values"
                 /\ arg' = [p_name |-> p_name, p_time |-> p_time]
                 /\ report' = res.report
                 /\ ret' = Outcome(res)
    /\ UNCHANGED <<g, eattr, nattr, store>>

SaveCsv ==
    /\ Cardinality(store.files \ OldFiles) < MaxSaves
    /\ \E create_dir, replace, cleanup \in BOOLEAN :
          LET res == save_csv(report, store, create_dir, replace, cleanup)
          IN  /\ op' = "save_csv"
              /\ arg' = [replace |-> replace, cleanup |-> cleanup]
              /\ report' = res.report
              /\ store' = res.fs
              /\ ret' = [raised |-> res.raised, msg |-> res.msg, save_path |-> res.save_path]
    /\ UNCHANGED <<g, eattr, nattr>>

NextReport ==
    \/ AddProperty
    \/ AddProperties
    \/ AddGraphData
    \/ AddPropertyValues
    \/ SaveCsv

SpecReport == InitReport /\ [][NextReport]_vars

\* The number of rows started so far: the successful add_graph_data calls
\* (n_nodes is appended to by nothing else).
RowsStarted(r) == Len(r._data["n_nodes"])

\* C16: add_graph_data starts a new row only as the first row or after a
\* completely filled one: with a previous row and an unfilled property it
\* raises RuntimeError and changes no column; otherwise it appends exactly one
\* entry to each of graph, n_nodes and n_edges and marks every property
\* unfilled; and once it has been called, add_property and add_properties
\* raise RuntimeError.
C16_NewRowOnlyAfterFilledRow ==
    [][/\ op' = "add_graph_data" =>
            IF report._finished_setup /\ ~AllValues(report._props)
            THEN /\ ret'.raised = RuntimeError
                 /\ report'._data = report._data
            ELSE /\ ret'.raised = ""
                 /\ \A c \in {"graph", "n_nodes", "n_edges"} :
                        Len(report'._data[c]) = Len(report._data[c]) + 1
                 /\ \A p \in DOMAIN report'._props : ~report'._props[p]
                 /\ report'._finished_setup
       /\ (op' \in {"add_property", "add_properties"} /\ report._finished_setup) =>
            /\ ret'.raised = RuntimeError
            /\ report' = report]_vars

\* C17: add_property_values raises RuntimeError before the first
\* add_graph_data, and ValueError when p_name is not a property added with
\* add_property / add_properties (the built-in columns and the generated
\* time columns are not such properties); in both cases no column changes.
C17_ValuesOnlyForAddedProperties ==
    [][op' = "add_property_values" =>
          /\ ~report._finished_setup =>
                /\ ret'.raised = RuntimeError
                /\ report'._data = report._data
          /\ (report._finished_setup /\ arg'.p_name \notin DOMAIN report._props) =>
                /\ ret'.raised = ValueError
                /\ report'._data = report._data]_vars

\* p_name was added with add_time_property=True: its time column exists and
\* is not a property of its own.
HasTimeProperty(r, p_name) ==
    /\ p_name \in DOMAIN r._props
    /\ TimeColumn(p_name) \in DOMAIN r._data
    /\ TimeColumn(p_name) \notin DOMAIN r._props

\* C18: for a property added with add_time_property=True,
\* add_property_values with p_time=None raises ValueError and changes no
\* column, so that the value column and the time column of such a property
\* always have the same length.
C18_TimeRequired ==
    [][/\ (/\ op' = "add_property_values"
           /\ report._finished_setup
           /\ HasTimeProperty(report, arg'.p_name)
           /\ arg'.p_time = None) =>
              /\ ret'.raised = ValueError
              /\ report'._data = report._data
       /\ \A p \in DOMAIN report'._props :
              HasTimeProperty(report', p) =>
                  Len(report'._data[p]) = Len(report'._data[TimeColumn(p)])]_vars

\* C19: save_csv with replace=False never writes to an existing path: every
\* file present before the call is unchanged after it, and the path written is
\* the first of <name>.csv, <name>-1.csv, <name>-2.csv, ... that was not an
\* existing file.
C19_NeverOverwrites ==
    [][(op' = "save_csv" /\ ~arg'.replace) =>
          /\ store.files \subseteq store'.files
          /\ ret'.save_path # <<>> =>
                \E n \in 0..Cardinality(store.files) :
                   /\ ret'.save_path[1] = CsvName(report.name, n)
                   /\ ~isfile(store.files, CsvName(report.name, n))
                   /\ \A i \in 0..(n - 1) : isfile(store.files, CsvName(report.name, i))
                   /\ \E f \in store'.files :
                         /\ f.name = ret'.save_path[1]
                         /\ store'.files = store.files \cup {f}
          /\ ret'.save_path = <<>> => store' = store]_vars

\* A save without replacement wrote the third candidate because the first two
\* were files already.
C19_Witness ==
    /\ op = "save_csv"
    /\ ~arg.replace
    /\ ret.save_path = <<CsvName(ReportName, 2)>>
    /\ OldFiles \subseteq store.files
    /\ isfile(store.files, CsvName(ReportName, 2))

\* C20: save_csv(cleanup=True) removes the last row when one of its
\* properties is unfilled and nothing else: the rows whose properties were all
\* filled are kept with their values, all columns have the same length
\* afterwards, and the save does not raise 'Not all properties have been
\* filled'.
C20_CleanupRemovesOnlyUnfilledLastRow ==
    [][(op' = "save_csv" /\ arg'.cleanup /\ report._finished_setup) =>
          LET kept == IF AllValues(report._props)
                      THEN RowsStarted(report)
                      ELSE RowsStarted(report) - 1
          IN  /\ ret'.msg # NotAllFilled
              /\ SameLength(report'._data)
              /\ \A c \in DOMAIN report._data :
                    /\ Len(report._data[c]) >= kept
                    /\ report'._data[c] = SubSeq(report._data[c], 1, kept)]_vars

\* ------------------------------------------------------------------ main
\* main.py.  A run config is the record of its graph and model fields.  What
\* the optimizer does in a run is an input of the environment: the status of
\* the solve, or an exception raised while the model is built or solved.
MaxRuns == 2

ModelClasses == {"NaturalModel", "ExtendedModel", "CGModel"}
ConfigModels == {"NaturalModel", "CGModel", "NoModel"}
GmlName(stem) == <<stem, ".", "gml">>
GraphDir ==
    {[name |-> GmlName("a"),
      content |-> write_gml([nodes |-> <<0, 1, 2>>, edges |-> {{0, 1}, {1, 2}}])]}
ConfigGraphs == {GmlName("a"), GmlName("b")}
RunConfigs == [graph : ConfigGraphs, model : ConfigModels]
SolveOutcomes == {"OPTIMAL", "TIME_LIMIT", "raise"}
RunLists == SeqsUpTo(RunConfigs, MaxRuns)
OldMainFiles == {[name |-> CsvName(ReportName, 0), content |-> [c \in {"graph"} |-> <<<<"old">>>>]]}

\* RunConfig.resolved_gname with name left None, config.py line 32.
resolved_gname(run_config) == get_file_name_and_extension(run_config.graph)[1]

\* getattr(model_classes, run_config.model), main.py line 25.
getattr_model_classes(name) ==
    IF name \in ModelClasses THEN Returned(name) ELSE Raised(AttributeError)

\* The graph object as add_graph_data reads it: len(g.nodes), len(g.edges).
AsGraph(loaded) == [nodes |-> Range(loaded.nodes), edges |-> loaded.edges]

\* A sequence of add_property_values calls on names that are properties,
\* lines 34-39 and 69-76: each returns normally.
RECURSIVE AddValues(_, _, _)
AddValues(r, cells, i) ==
    IF i > Len(cells) THEN r
    ELSE AddValues(add_property_values(r, cells[i][1], cells[i][2], None).report, cells, i + 1)

\* The state of a report loop: the report, the classes built so far, and the
\* exception that ended the loop ("" while none did).
LoopState(r, built, raised) == [report |-> r, built |-> built, raised |-> raised]

\* One iteration of the loop of create_and_save_model_comparison_report,
\* lines 23-39.
ComparisonRun(st, run_config, outcome) ==
    LET loaded == build_graph_from_file(GraphDir, run_config.graph)
        run_model == getattr_model_classes(run_config.model)
    IN  IF loaded.raised # "" THEN LoopState(st.report, st.built, loaded.raised)
        ELSE IF run_model.raised # "" THEN LoopState(st.report, st.built, run_model.raised)
        ELSE IF outcome = "raise"
        THEN LoopState(st.report, Append(st.built, run_model.value), "GurobiError")
        ELSE LET feasible == outcome = "OPTIMAL"
                 lb == IF ~feasible THEN "ObjBoundC" ELSE None
                 row == add_graph_data(st.report, AsGraph(loaded.value),
                                       resolved_gname(run_config))
             IN  IF row.raised # ""
                 THEN LoopState(row.report, Append(st.built, run_model.value), row.raised)
                 ELSE LoopState(
                        AddValues(row.report,
                                  <<<<"Model", run_config.model>>, <<"k", "upper_bound">>,
                                    <<"t_k", "seconds">>, <<"LB", lb>>,
                                    <<"UB", "solution">>, <<"time", "seconds">>>>, 1),
                        Append(st.built, run_model.value), "")

\* One iteration of the loop of create_and_save_column_generation_report,
\* lines 63-76.
ColumnGenerationRun(st, run_config, outcome) ==
    LET loaded == build_graph_from_file(GraphDir, run_config.graph)
    IN  IF loaded.raised # "" THEN LoopState(st.report, st.built, loaded.raised)
        ELSE IF outcome = "raise"
        THEN LoopState(st.report, Append(st.built, "CGModel"), "GurobiError")
        ELSE LET row == add_graph_data(st.report, AsGraph(loaded.value),
                                       resolved_gname(run_config))
             IN  IF row.raised # ""
                 THEN LoopState(row.report, Append(st.built, "CGModel"), row.raised)
                 ELSE LoopState(
                        AddValues(row.report,
                                  <<<<"model", "Column Generation">>,
                                    <<"columns_added", "columns_added">>,
                                    <<"obj_val", IF outcome = "OPTIMAL" THEN "solution"
                                                 ELSE "best_known_solution">>,
                                    <<"master_time", "seconds">>,
                                    <<"pricing_time", "seconds">>,
                                    <<"total_time", "seconds">>>>, 1),
                        Append(st.built, "CGModel"), "")

\* The loop body run for the first run config only.
RunLoopFirstOnly(kind, st, run_configs, outcomes, i) ==
    IF i > Len(run_configs) \/ i > 1 THEN st
    ELSE IF kind = "comparison"
    THEN ComparisonRun(st, run_configs[i], outcomes[i])
    ELSE ColumnGenerationRun(st, run_configs[i], outcomes[i])

\* The for loops, lines 22 and 62: the first exception ends the loop.
RECURSIVE RunLoop(_, _, _, _, _)
RunLoop(kind, st, run_configs, outcomes, i) ==
    IF i > Len(run_configs) \/ st.raised # "" THEN st
    ELSE RunLoop(kind,
                 IF kind = "comparison"
                 THEN ComparisonRun(st, run_configs[i], outcomes[i])
                 ELSE ColumnGenerationRun(st, run_configs[i], outcomes[i]),
                 run_configs, outcomes, i + 1)

\* What a report function leaves behind: the exception that reached its
\* caller, what was printed, the classes built, the reports directory and the
\* paths written.
ReportResult(raised, printed, built, fs, saved) ==
    [raised |-> raised, printed |-> printed, built |-> built, fs |-> fs, saved |-> saved]

\* The handler and the final save, lines 40-44 and 77-80.
SaveReport(st, fs) ==
    IF st.raised # ""
    THEN LET first == save_csv(st.report, fs, TRUE, FALSE, TRUE)
         IN  IF first.raised # ""
             THEN ReportResult(first.raised, <<st.raised>>, st.built, first.fs, <<>>)
             ELSE LET last == save_csv(first.report, first.fs, TRUE, FALSE, FALSE)
                  IN  ReportResult(last.raised, <<st.raised>>, st.built, last.fs,
                                   first.save_path \o last.save_path)
    ELSE LET last == save_csv(st.report, fs, TRUE, FALSE, FALSE)
         IN  ReportResult(last.raised, <<>>, st.built, last.fs, last.save_path)

\* create_and_save_model_comparison_report, lines 9-44.
create_and_save_model_comparison_report(run_configs, outcomes, fs) ==
    LET r == add_properties(GraphReport(ReportName),
                            <<"Model", "k", "t_k", "LB", "UB", "time">>, FALSE).report
    IN  SaveReport(RunLoop("comparison", LoopState(r, <<>>, ""), run_configs, outcomes, 1), fs)

\* create_and_save_column_generation_report, lines 47-80.
create_and_save_column_generation_report(run_configs, outcomes, fs) ==
    LET r == add_properties(GraphReport(ReportName),
                            <<"model", "columns_added", "obj_val", "master_time",
                              "pricing_time", "total_time">>, FALSE).report
    IN  SaveReport(RunLoop("cg", LoopState(r, <<>>, ""), run_configs, outcomes, 1), fs)

\* main, lines 93-97: run_configs[0] of an empty list raises IndexError.
main(run_configs, outcomes, fs) ==
    IF Len(run_configs) = 0 THEN ReportResult("IndexError", <<>>, <<>>, fs, <<>>)
    ELSE IF run_configs[1].model # "CGModel"
    THEN create_and_save_model_comparison_report(run_configs, outcomes, fs)
    ELSE create_and_save_column_generation_report(run_configs, outcomes, fs)

InitMain ==
    /\ g = {}
    /\ eattr = Unset
    /\ nattr = Unset
    /\ op = "start"
    /\ arg = <<>>
    /\ ret = <<>>
    /\ \E isdir \in BOOLEAN : \E files \in SUBSET OldMainFiles :
          /\ ~isdir => files = {}
          /\ store = [isdir |-> isdir, files |-> files]
    /\ report = NoReport

\* One call of a report function on a configuration and an environment.
Called(name, run_configs, outcomes, res) ==
    /\ op' = name
    /\ arg' = [run_configs |-> run_configs, outcomes |-> outcomes, store |-> store]
    /\ ret' = [raised |-> res.raised, printed |-> res.printed, built |-> res.built,
               saved |-> res.saved]
    /\ store' = res.fs
    /\ UNCHANGED <<g, eattr, nattr, report>>

ModelComparisonReport ==
    /\ op = "start"
    /\ \E run_configs \in RunLists :
       \E outcomes \in SeqsOfLen(SolveOutcomes, Len(run_configs)) :
          Called("create_and_save_model_comparison_report", run_configs, outcomes,
                 create_and_save_model_comparison_report(run_configs, outcomes, store))

ColumnGenerationReport ==
    /\ op = "start"
    /\ \E run_configs \in RunLists :
       \E outcomes \in SeqsOfLen(SolveOutcomes, Len(run_configs)) :
          Called("create_and_save_column_generation_report", run_configs, outcomes,
                 create_and_save_column_generation_report(run_configs, outcomes, store))

Main ==
    /\ op = "start"
    /\ \E run_configs \in RunLists :
       \E outcomes \in SeqsOfLen(SolveOutcomes, Len(run_configs)) :
          Called("main", run_configs, outcomes, main(run_configs, outcomes, store))

NextMain ==
    \/ ModelComparisonReport
    \/ ColumnGenerationReport
    \/ Main

SpecMain == InitMain /\ [][NextMain]_vars

\* Whether processing a run config raises: the graph file is missing, the
\* model field names no class of model.py (looked up by the comparison report
\* only), or the environment raises while the model is built or solved.
RunRaises(name, run_config, outcome) ==
    \/ ~isfile(GraphDir, run_config.graph)
    \/ name = "create_and_save_model_comparison_report" /\ run_config.model \notin ModelClasses
    \/ outcome = "raise"

\* The report function that ran: main dispatches on the first run config.
ReportFunction ==
    IF op # "main" THEN op
    ELSE IF arg.run_configs[1].model # "CGModel"
    THEN "create_and_save_model_comparison_report"
    ELSE "create_and_save_column_generation_report"

Raising == {i \in 1..Len(arg.run_configs) :
               RunRaises(ReportFunction, arg.run_configs[i], arg.outcomes[i])}
\* The run configs completed before the first one that raised (all of them
\* when none did).
Completed ==
    {i \in 1..Len(arg.run_configs) : \A j \in Raising : i < j}

\* The file at path has one row per completed run, in their order.
HasCompletedRows(path) ==
    \E f \in store.files :
       /\ f.name = path
       /\ \A c \in DOMAIN f.content : Len(f.content[c]) = Cardinality(Completed)
       /\ \A i \in Completed : f.content["graph"][i] = resolved_gname(arg.run_configs[i])

\* C11: an exception raised while a run config is processed, the first one
\* included, is caught inside the report function: it is printed, it does
\* not reach the caller, and the rows of the run configs completed before it
\* are saved to the CSV report.
C11_ExceptionCaughtAndRowsSaved ==
    (/\ op \in {"create_and_save_model_comparison_report",
                "create_and_save_column_generation_report"}
     /\ Raising # {}) =>
        /\ Len(ret.printed) = 1
        /\ ret.raised = ""
        /\ ret.saved # <<>>
        /\ \A i \in 1..Len(ret.saved) : HasCompletedRows(ret.saved[i])

ComparisonColumns == {"graph", "n_nodes", "n_edges", "Model", "k", "t_k", "LB", "UB", "time"}
ComputedColumns == {"Model", "k", "t_k", "LB", "UB", "time"}

\* The report saved by a comparison run has the nine columns and one row per
\* run config, in the order of the run configs.
SavedRowPerRun(f) ==
    /\ DOMAIN f.content = ComparisonColumns
    /\ \A c \in ComparisonColumns : Len(f.content[c]) = Len(arg.run_configs)
    /\ \A i \in 1..Len(arg.run_configs) :
          /\ f.content["graph"][i] = resolved_gname(arg.run_configs[i])
          /\ f.content["Model"][i] = arg.run_configs[i].model
          /\ f.content["n_nodes"][i] = 3
          /\ f.content["n_edges"][i] = 2

\* C12 as stated: when create_and_save_model_comparison_report processes n
\* run configs and none raises, the saved report has exactly n rows, in the
\* order of the run configs, and every row has a value in every column.
C12_RowPerRunAllValues ==
    (op = "create_and_save_model_comparison_report" /\ Raising = {}) =>
        /\ Len(ret.saved) = 1
        /\ \E f \in store.files :
              /\ f.name = ret.saved[1]
              /\ SavedRowPerRun(f)
              /\ \A c \in ComputedColumns : \A i \in 1..Len(arg.run_configs) :
                    f.content[c][i] # None

\* C12: when create_and_save_model_comparison_report processes n >= 1 run
\* configs and none raises, exactly one report is saved; it has exactly n
\* rows, in the order of the run configs, with an entry in every column, and
\* the entry is a value everywhere except in column LB, which holds None for
\* the runs whose solve() reported a solution and the bound ObjBoundC for the
\* others.  With no run config nothing is saved and 'No data to save.' is
\* raised.
C12_RowPerRun ==
    (op = "create_and_save_model_comparison_report" /\ Raising = {}) =>
        IF Len(arg.run_configs) = 0
        THEN /\ ret.raised = RuntimeError
             /\ ret.saved = <<>>
             /\ store = arg.store
        ELSE /\ ret.raised = ""
             /\ ret.printed = <<>>
             /\ Len(ret.saved) = 1
             /\ ~isfile(arg.store.files, ret.saved[1])
             /\ \E f \in store.files :
                   /\ f.name = ret.saved[1]
                   /\ SavedRowPerRun(f)
                   /\ \A c \in ComputedColumns \ {"LB"} : \A i \in 1..Len(arg.run_configs) :
                         f.content[c][i] # None
                   /\ \A i \in 1..Len(arg.run_configs) :
                         f.content["LB"][i] =
                             IF arg.outcomes[i] = "OPTIMAL" THEN None ELSE "ObjBoundC"

\* Two runs with different formulations were reported, the first with a
\* solution and the second without.
C12_Witness ==
    /\ op = "create_and_save_model_comparison_report"
    /\ Raising = {}
    /\ Len(arg.run_configs) = 2
    /\ arg.run_configs[1].model = "CGModel"
    /\ arg.run_configs[2].model = "NaturalModel"
    /\ arg.outcomes = <<"OPTIMAL", "TIME_LIMIT">>
    /\ ret.saved = <<CsvName(ReportName, 1)>>
    /\ \E f \in store.files :
          /\ f.name = CsvName(ReportName, 1)
          /\ f.content["Model"] = <<"CGModel", "NaturalModel">>
          /\ f.content["LB"] = <<None, "ObjBoundC">>

\* C13: every run config is solved with the formulation its own model field
\* names, whatever the model of the first run config is.
C13_EachRunItsOwnModel ==
    op = "main" =>
        \A i \in 1..Len(ret.built) : ret.built[i] = arg.run_configs[i].model

\* ------------------------------------------------- optimizer time budget
\* bc_bounds.py, get_vertex_cover_solution: the parameters of the gurobi
\* model at the moment optimize() is called.  A parameter left at its
\* default is Absent; None is Absent as well.
TimeLimits == {Absent} \cup {Value(t) : t \in {0, 30, 60, 120}}
SoftMemLimits == {Absent, Value(4)}

\* `if x:` on None or a number.
Truthy(x) == x # Absent /\ x[1] # 0

DefaultParams == [LogToConsole |-> Absent, TimeLimit |-> Absent, SoftMemLimit |-> Absent]

\* Lines 169-181: m.Params when line 183 calls m.optimize().
ParamsAtOptimize(time_limit, memory_limit) ==
    LET p1 == [DefaultParams EXCEPT !.LogToConsole = Value(0)]
        p2 == IF Truthy(time_limit) THEN [p1 EXCEPT !.TimeLimit = time_limit] ELSE p1
        p3 == IF Truthy(memory_limit) THEN [p2 EXCEPT !.SoftMemLimit = memory_limit] ELSE p2
    IN  [p3 EXCEPT !.TimeLimit = Value(60)]

\* get_vertex_cover_solution(g, time_limit, memory_limit): the optimizer runs
\* once, under ParamsAtOptimize, and any minimum vertex cover comes back.
GetVertexCoverSolution ==
    /\ op = "load"
    /\ \E time_limit \in TimeLimits, memory_limit \in SoftMemLimits :
       \E sol \in get_vertex_cover_solution(g) :
          /\ arg' = [time_limit |-> time_limit, memory_limit |-> memory_limit]
          /\ ret' = [optimize |-> <<ParamsAtOptimize(time_limit, memory_limit)>>,
                     value |-> sol]
    /\ op' = "get_vertex_cover_solution"
    /\ UNCHANGED <<g, eattr, nattr, store, report>>

\* vertex_cover(g, time_limit, memory_limit), lines 197-199.
VertexCover ==
    /\ op = "load"
    /\ \E time_limit \in TimeLimits, memory_limit \in SoftMemLimits :
          /\ arg' = [time_limit |-> time_limit, memory_limit |-> memory_limit]
          /\ ret' = [optimize |-> <<ParamsAtOptimize(time_limit, memory_limit)>>,
                     value |-> vertex_cover(g)]
    /\ op' = "vertex_cover"
    /\ UNCHANGED <<g, eattr, nattr, store, report>>

\* find_bc_upper_bound(g, method, time_limit, memory_limit), lines 151-161:
\* NUMBER calls no optimizer, VERTEX passes both limits on, MERGE_STARS calls
\* get_vertex_cover_solution(g) without them (line 204).
FindBcUpperBound ==
    /\ op = "load"
    /\ \E method \in UBMethods, time_limit \in TimeLimits, memory_limit \in SoftMemLimits :
       \E ub \in find_bc_upper_bound(g, method) :
          /\ arg' = [method |-> method, time_limit |-> time_limit,
                     memory_limit |-> memory_limit]
          /\ ret' = [optimize |->
                        CASE method = "NUMBER" -> <<>>
                          [] method = "VERTEX" -> <<ParamsAtOptimize(time_limit, memory_limit)>>
                          [] method = "MERGE_STARS" -> <<ParamsAtOptimize(Absent, Absent)>>,
                     value |-> ub]
    /\ op' = "find_bc_upper_bound"
    /\ UNCHANGED <<g, eattr, nattr, store, report>>

NextLimit ==
    \/ GetVertexCoverSolution
    \/ VertexCover
    \/ FindBcUpperBound

SpecLimit == InitCover /\ [][NextLimit]_vars

\* C15: the time_limit passed to a bound computation is the budget in
\* effect when the optimizer starts: for get_vertex_cover_solution,
\* vertex_cover and find_bc_upper_bound with method VERTEX, called with
\* time_limit = t, the TimeLimit parameter equals t when optimize() is called.
C15_TimeLimitInEffect ==
    (/\ op \in {"get_vertex_cover_solution", "vertex_cover", "find_bc_upper_bound"}
     /\ op = "find_bc_upper_bound" => arg.method = "VERTEX"
     /\ arg.time_limit # Absent) =>
        \A i \in 1..Len(ret.optimize) : ret.optimize[i].TimeLimit = arg.time_limit

\* ------------------------------------------------------ repeated solves
\* biclique.py, solve_recursive, called as test.py calls it (indep_edges left
\* empty), and base_model.py, MBCModel.solve.  ret is the log of the optimizer
\* calls made so far.
MaxK == 3

\* A column of the bottom-up model: each node in side 0 (X[v,b,0] = 1), in
\* side 1 (X[v,b,1] = 1) or in neither, by the constraint of line 199.  Z[b] is
\* fixed to 1 (line 133), so the constraints of lines 141 and 193 exclude
\* nothing, and lines 203-205 make Y[u,v,b] = 1 exactly when u is in side 0
\* and v in side 1.
BottomUpColumns == [Nodes -> {"none", "side0", "side1"}]
CoveredByColumn(col) == {e \in AllEdges : {col[v] : v \in e} = {"side0", "side1"}}

\* Lines 207-208, with Z[b] = 1: no side-0 node and side-1 node that are not
\* adjacent.
NonEdgeConstr(G, col) ==
    \A u, v \in Nodes :
        (u # v /\ ~has_edge(G, u, v)) => ~(col[u] = "side0" /\ col[v] = "side1")

\* nx.find_cliques(G): the maximal cliques.
find_cliques(G) ==
    {S \in SUBSET Nodes :
        /\ S # {}
        /\ \A u, v \in S : u # v => has_edge(G, u, v)
        /\ \A w \in Nodes \ S : \E u \in S : ~has_edge(G, u, w)}

\* Lines 162-165.
clique_num(c) == IF c % 2 = 0 THEN (c * c) \div 4 ELSE ((c + 1) * (c - 1)) \div 4

\* add_maximal_con_v, lines 159-167: in every maximal clique at most
\* clique_num of the Y[u,v,b] are 1.  All pairs of a clique are edges, so the
\* Y[u,v,b] that are 1 are the pairs of a side-0 node and a side-1 node.
MaximalCon(G, cliques, col) ==
    \A clique \in cliques :
        Cardinality({u \in clique : col[u] = "side0"}) * Cardinality({v \in clique : col[v] = "side1"})
            <= clique_num(Cardinality(clique))

\* The columns a solution of build_bottom_up_model_v can have.
AllowedColumns(G, maximal_con, cliques) ==
    {col \in BottomUpColumns :
        NonEdgeConstr(G, col) /\ (maximal_con => MaximalCon(G, cliques, col))}

\* Whether the covering constraints of line 196 can be met for the edges
\* `rest` with n more columns out of cols.
RECURSIVE BottomUpFeasible(_, _, _)
BottomUpFeasible(cols, rest, n) ==
    \/ rest = {}
    \/ /\ n > 0
       /\ LET e == CHOOSE e \in rest : TRUE
          IN  \E col \in cols :
                 /\ e \in CoveredByColumn(col)
                 /\ BottomUpFeasible(cols, rest \ CoveredByColumn(col), n - 1)

\* fix_indep_edges_v, lines 181-187: column b has u in side 0 and v in side 1
\* for the b-th pair (u, v) of indep_edges; the other columns are free.
RECURSIVE FixedFeasible(_, _, _, _)
FixedFeasible(cols, indep_edges, rest, n) ==
    IF indep_edges = <<>> THEN BottomUpFeasible(cols, rest, n)
    ELSE /\ n > 0
         /\ \E col \in cols :
               /\ col[Head(indep_edges)[1]] = "side0"
               /\ col[Head(indep_edges)[2]] = "side1"
               /\ FixedFeasible(cols, Tail(indep_edges), rest \ CoveredByColumn(col), n - 1)

\* Whether the model of build_bottom_up_model_v(G, k, indep_edges,
\* maximal_con) has a solution.
build_bottom_up_model_v(G, k, indep_edges, maximal_con) ==
    \E cliques \in {IF maximal_con THEN find_cliques(G) ELSE {}} :
    \E cols \in {AllowedColumns(G, maximal_con, cliques)} :
        FixedFeasible(cols, indep_edges, G, k)

\* m.status after m.optimize() on the model of build_bottom_up_model_v(G, k,
\* [], True): the time limit of line 115 can end any solve.
BottomUpStatuses(G, k) ==
    {"TIME_LIMIT"} \cup (IF build_bottom_up_model_v(G, k, <<>>, TRUE) THEN {"OPTIMAL"} ELSE {"INFEASIBLE"})

\* solve_recursive, lines 146-147.
SolveRecursive ==
    /\ op = "load"
    /\ op' = "solve_recursive"
    /\ arg' = [k |-> 0]
    /\ ret' = <<>>
    /\ UNCHANGED <<g, eattr, nattr, store, report>>

\* One pass of the loop that returns after the optimizer call whatever the
\* status is.
BottomUpOptimizeOnce ==
    /\ op = "solve_recursive"
    /\ arg.k < MaxK
    /\ \E status \in BottomUpStatuses(g, arg.k) :
          /\ ret' = Append(ret, [k |-> arg.k, status |-> status])
          /\ op' = "solve_recursive returned"
          /\ arg' = arg
    /\ UNCHANGED <<g, eattr, nattr, store, report>>

\* One pass of the loop of solve_recursive, lines 149-156.
BottomUpOptimize ==
    /\ op = "solve_recursive"
    /\ arg.k < MaxK
    /\ \E status \in BottomUpStatuses(g, arg.k) :
          /\ ret' = Append(ret, [k |-> arg.k, status |-> status])
          /\ IF status = "OPTIMAL"
             THEN /\ op' = "solve_recursive returned"
                  /\ arg' = arg
             ELSE /\ op' = op
                  /\ arg' = [k |-> arg.k + 1]
    /\ UNCHANGED <<g, eattr, nattr, store, report>>

\* MBCModel.solve, lines 229-241: one call of m.optimize().
ModelSolve ==
    /\ op = "load"
    /\ \E status \in Statuses :
          /\ ret' = <<[status |-> status]>>
          /\ arg' = [status |-> status]
    /\ op' = "solve"
    /\ UNCHANGED <<g, eattr, nattr, store, report>>

NextRetry ==
    \/ SolveRecursive
    \/ BottomUpOptimize
    \/ ModelSolve

SpecRetry == InitCover /\ [][NextRetry]_vars

MaxEntries == 3
MaxSubEntries == 2

SmallGraph == [nodes |-> {0, 1}, edges |-> {{0, 1}}]
LargeGraph == [nodes |-> {0, 1, 2}, edges |-> {{0, 1}, {1, 2}}]
NoGraph == [nodes |-> {}, edges |-> {}]
FileEntry(name, G) == [name |-> name, kind |-> "file", graph |-> G, entries |-> <<>>]
DirEntry(name, entries) == [name |-> name, kind |-> "dir", graph |-> NoGraph, entries |-> entries]
GraphFiles == {FileEntry(GmlName("p"), SmallGraph), FileEntry(GmlName("q"), LargeGraph)}
OtherFiles == {FileEntry(<<"p", ".", "csv">>, NoGraph)}
SubDirectories == {DirEntry(<<"d">>, entries) : entries \in SeqsUpTo(GraphFiles, MaxSubEntries)}
DirectoryTrees == SeqsUpTo(GraphFiles \cup OtherFiles \cup SubDirectories, MaxEntries)

\* re.match(fname_regex, filename) for a pattern of one literal character:
\* the file name starts with it.
match(fname_regex, filename) == filename # <<>> /\ filename[1] = fname_regex

WalkParams ==
    [max_nodes : {Absent, Value(2)}, max_edges : {Absent, Value(1)},
     max_graphs : {Absent} \cup {Value(n) : n \in 0..2},
     fname_regex : {None, "p"}, recursive : BOOLEAN, include_extension : BOOLEAN]

\* The generator so far: what it yielded, its counter, and the exception
\* that ended it.
WalkState(yielded, count, raised) == [yielded |-> yielded, count |-> count, raised |-> raised]

\* The loop of lines 104-131 from the i-th entry on.  The graphs yielded by
\* the generator of a sub-directory (lines 119-120) are passed through; count
\* is increased only at line 129.
RECURSIVE WalkLoop(_, _, _, _)
WalkLoop(entries, i, st, p) ==
    IF i > Len(entries) \/ st.raised # "" THEN st
    ELSE IF Truthy(p.max_graphs) /\ st.count >= p.max_graphs[1] THEN st
    ELSE LET e == entries[i]
             ext == get_file_name_and_extension(e.name)[2]
         IN  IF p.fname_regex # None /\ ~match(p.fname_regex, e.name)
             THEN WalkLoop(entries, i + 1, st, p)
             ELSE IF e.kind # "file"
             THEN IF p.recursive /\ e.kind = "dir"
                  THEN LET sub == WalkLoop(e.entries, 1, WalkState(st.yielded, 0, ""),
                                           [p EXCEPT !.max_graphs =
                                               IF Truthy(@) THEN Value(@[1] - st.count)
                                               ELSE Absent])
                       IN  WalkLoop(entries, i + 1,
                                    WalkState(sub.yielded, st.count, sub.raised), p)
                  ELSE WalkLoop(entries, i + 1, st, p)
             ELSE IF ext # <<"gml">>
             THEN WalkState(st.yielded, st.count, ValueError)
             ELSE IF Truthy(p.max_nodes) /\ Cardinality(e.graph.nodes) > p.max_nodes[1]
             THEN WalkLoop(entries, i + 1, st, p)
             ELSE IF Truthy(p.max_edges) /\ Cardinality(e.graph.edges) > p.max_edges[1]
             THEN WalkLoop(entries, i + 1, st, p)
             ELSE LET name == IF p.include_extension THEN e.name
                              ELSE get_file_name_and_extension(e.name)[1]
                  IN  WalkLoop(entries, i + 1,
                               WalkState(Append(st.yielded, [g |-> e.graph, name |-> name]),
                                         st.count + 1, st.raised), p)

\* get_graphs_in_store on the directory graph_dir, consumed to its end.
get_graphs_in_store(graph_dir, p) == WalkLoop(graph_dir, 1, WalkState(<<>>, 0, ""), p)

InitWalk ==
    /\ g = {}
    /\ eattr = Unset
    /\ nattr = Unset
    /\ op = "load"
    /\ arg = <<>>
    /\ ret = <<>>
    /\ store \in DirectoryTrees
    /\ report = NoReport

GetGraphsInStore ==
    /\ op = "load"
    /\ \E p \in WalkParams :
          LET res == get_graphs_in_store(store, p)
          IN  /\ arg' = p
              /\ ret' = [yielded |-> res.yielded, raised |-> res.raised]
    /\ op' = "get_graphs_in_store"
    /\ UNCHANGED <<g, eattr, nattr, store, report>>

NextWalk ==
    \/ GetGraphsInStore

SpecWalk == InitWalk /\ [][NextWalk]_vars

\* C21: get_graphs_in_store with max_graphs = n yields at most n graphs in
\* total, for every directory tree and every setting of recursive (graphs
\* found in sub-directories count towards the limit).
C21_AtMostMaxGraphs ==
    (op = "get_graphs_in_store" /\ arg.max_graphs # Absent) =>
        Len(ret.yielded) <= arg.max_graphs[1]

\* ------------------------------------- build_and_save_multipartite_graphs
\* util.py (and the copy in test.py).  One step is one pass of the loop; the
\* random partition sizes and the random edges are choices of the
\* environment.  edge_probability is given in percent.  store is the set of
\* file names of the graph directory, ret the partition counts of the graphs
\* saved so far.
MaxPartitions == 3
MaxEach == 2
MaxVertices == 2

EdgeProbabilities == {100, 50}

\* Line 262.
str_partition_type(n) ==
    CASE n = 2 -> "bipartite"
      [] n = 3 -> "tripartite"
      [] OTHER -> ToString(n) \o "-multipartite"

\* Line 263.
str_edge_probability(edge_probability) ==
    IF edge_probability = 100 THEN "complete" ELSE ToString(edge_probability)

\* ''.join(f'_{size}' for size in sizes), line 264.
RECURSIVE JoinSizes(_, _)
JoinSizes(sizes, i) ==
    IF i > Len(sizes) THEN ""
    ELSE "_" \o ToString(sizes[i]) \o JoinSizes(sizes, i + 1)

\* len(g.nodes): the partitions are disjoint, lines 214-218.
SumSizes(sizes) == SumOver(sizes, 1, Len(sizes))

\* The number of node pairs in different partitions: the edges of the
\* complete multipartite graph, lines 220-223.
RECURSIVE CrossPairs(_)
CrossPairs(sizes) ==
    IF Len(sizes) <= 1 THEN 0
    ELSE sizes[1] * SumSizes(Tail(sizes)) + CrossPairs(Tail(sizes))

\* len(g.edges) of build_multipartite_graph(*sizes, edge_probability): every
\* cross pair when the probability is 1, any of them otherwise.
MultipartiteEdgeCounts(sizes, edge_probability) ==
    IF edge_probability = 100 THEN {CrossPairs(sizes)} ELSE 0..CrossPairs(sizes)

\* The file save_graph_in_store writes for the graph, lines 264 and 174-178.
MultipartiteFileName(n, sizes, n_edges, edge_probability) ==
    str_edge_probability(edge_probability) \o "-" \o str_partition_type(n)
        \o JoinSizes(sizes, 1) \o "_" \o ToString(SumSizes(sizes))
        \o "_" \o ToString(n_edges) \o ".gml"

\* Line 258: the number of partitions of the i-th graph.
PartitionsOf(min_partitions, i, number_each_partition) ==
    min_partitions + (i % number_each_partition)

InitMulti ==
    /\ g = {}
    /\ eattr = Unset
    /\ nattr = Unset
    /\ op = "load"
    /\ arg = <<>>
    /\ ret = <<>>
    /\ store = NoFiles
    /\ report = NoReport

\* The call, line 255.
BuildAndSaveMultipartiteGraphs ==
    /\ op = "load"
    /\ \E min_partitions \in 1..MaxPartitions, max_partitions \in 1..(MaxPartitions + 1),
          number_each_partition \in 1..MaxEach, max_vertices \in 1..MaxVertices,
          edge_probability \in EdgeProbabilities :
          /\ min_partitions <= max_partitions
          /\ arg' = [min_partitions |-> min_partitions, max_partitions |-> max_partitions,
                     number_each_partition |-> number_each_partition,
                     min_vertices |-> 1, max_vertices |-> max_vertices,
                     edge_probability |-> edge_probability, i |-> 0]
    /\ op' = "build_and_save_multipartite_graphs"
    /\ ret' = [generated |-> <<>>, raised |-> ""]
    /\ UNCHANGED <<g, eattr, nattr, store, report>>

\* One pass of the loop, lines 256-266, or its end.
BuildAndSaveStep ==
    /\ op = "build_and_save_multipartite_graphs"
    /\ IF arg.i >= (arg.max_partitions - arg.min_partitions) * arg.number_each_partition
       THEN /\ op' = "build_and_save_multipartite_graphs returned"
            /\ UNCHANGED <<arg, ret, store>>
       ELSE LET n == PartitionsOf(arg.min_partitions, arg.i, arg.number_each_partition)
            IN  \E sizes \in [1..n -> arg.min_vertices..arg.max_vertices] :
                \E n_edges \in MultipartiteEdgeCounts(sizes, arg.edge_probability) :
                   LET fname == MultipartiteFileName(n, sizes, n_edges, arg.edge_probability)
                   IN  IF fname \in store
                       THEN /\ op' = "build_and_save_multipartite_graphs returned"
                            /\ ret' = [ret EXCEPT !.raised = "FileExistsError"]
                            /\ UNCHANGED <<arg, store>>
                       ELSE /\ op' = op
                            /\ store' = store \cup {fname}
                            /\ ret' = [ret EXCEPT !.generated = Append(@, n)]
                            /\ arg' = [arg EXCEPT !.i = @ + 1]
    /\ UNCHANGED <<g, eattr, nattr, report>>

NextMulti ==
    \/ BuildAndSaveMultipartiteGraphs
    \/ BuildAndSaveStep

SpecMulti == InitMulti /\ [][NextMulti]_vars

\* The number of graphs generated with p partitions.
GeneratedWith(p) == Cardinality({i \in 1..Len(ret.generated) : ret.generated[i] = p})

\* C22: build_and_save_multipartite_graphs generates, for every partition
\* count p with min_partitions <= p < max_partitions, exactly
\* number_each_partition graphs with p partitions, and no graph with a
\* partition count outside that range.
C22_EachPartitionCount ==
    (op = "build_and_save_multipartite_graphs returned" /\ ret.raised = "") =>
        /\ \A p \in arg.min_partitions..(arg.max_partitions - 1) :
              GeneratedWith(p) = arg.number_each_partition
        /\ \A i \in 1..Len(ret.generated) :
              ret.generated[i] \in arg.min_partitions..(arg.max_partitions - 1)

\* --------------------------------------------------------- C23 and C24
\* compute_lb_and_get_edges_by_independent_edges_method and merge_stars
\* (bc_bounds.py) on a loaded graph, the optimizer returning an exact optimum.

\* The call of compute_lb_and_get_edges_by_independent_edges_method(g).
IndependentEdges ==
    /\ op = "load"
    /\ \E r \in compute_lb_and_get_edges_by_independent_edges_method(g) : ret' = r
    /\ op' = "compute_lb_and_get_edges_by_independent_edges_method"
    /\ arg' = <<>>
    /\ UNCHANGED <<g, eattr, nattr, store, report>>

\* The call of merge_stars(g, t) with a vertex cover t of g, g2.edges
\* presenting its pairs in any order.
MergeStarsOfCover ==
    /\ op = "load"
    /\ \E t \in VertexCovers(g) :
       \E pairs \in PairOrders(DistanceTwoPairs(g)) :
          /\ arg' = t
          /\ ret' = merge_stars(g, t, pairs)
    /\ op' = "merge_stars(g, t)"
    /\ UNCHANGED <<g, eattr, nattr, store, report>>

NextHeuristics ==
    \/ IndependentEdges
    \/ MergeStarsOfCover

SpecHeuristics == InitCover /\ [][NextHeuristics]_vars

\* Two edges lie in a common biclique of G.
InCommonBiclique(G, e1, e2) ==
    \E b \in Bicliques(G) : {e1, e2} \subseteq EdgesBetween(b.L, b.R)

\* The sets of edges of G no two of which lie in a common biclique.
SeparatedEdgeSets(G) ==
    {S \in SUBSET G : \A e1, e2 \in S : e1 # e2 => ~InCommonBiclique(G, e1, e2)}

\* C23: the edge list returned by
\* compute_lb_and_get_edges_by_independent_edges_method(g) is a set of edges
\* of g no two of which can lie in a common biclique (no two share an
\* endpoint, and for no two edges ab, cd are both ad and bc, or both ac and
\* bd, edges of g), it has maximum size among such sets, and the returned
\* bound equals its size, so the bound is at most the minimum biclique cover
\* number.
C23_IndependentEdgesBound ==
    op = "compute_lb_and_get_edges_by_independent_edges_method" =>
        /\ ret.edges \subseteq g
        /\ \A e1, e2 \in ret.edges : e1 # e2 =>
              /\ e1 \cap e2 = {}
              /\ \A a \in e1, c \in e2 :
                    \A b \in e1 \ {a}, d \in e2 \ {c} :
                       ~({a, d} \in g /\ {b, c} \in g)
              /\ ~InCommonBiclique(g, e1, e2)
        /\ ret.edges \in SeparatedEdgeSets(g)
        /\ \A S \in SeparatedEdgeSets(g) : Cardinality(S) <= Cardinality(ret.edges)
        /\ ret.lb = Cardinality(ret.edges)
        /\ ret.lb <= BicliqueCoverNumber(g)

\* Two edges are returned although the graph has more: some were excluded.
C23_Witness ==
    /\ op = "compute_lb_and_get_edges_by_independent_edges_method"
    /\ Cardinality(ret.edges) = 2
    /\ Cardinality(g) > 3
    /\ ret.lb = BicliqueCoverNumber(g)

\* C24: for every graph g and every vertex cover t of g, merge_stars(g, t)
\* returns a list of edge sets each of which is the edge set of a complete
\* bipartite subgraph of g, and every edge of g belongs to at least one of
\* them, so the length of the list is an upper bound on the minimum biclique
\* cover number.
C24_MergeStarsIsCover ==
    op = "merge_stars(g, t)" =>
        /\ \A i \in 1..Len(ret) : ret[i] \subseteq g /\ IsCompleteBipartite(ret[i])
        /\ \A e \in g : \E i \in 1..Len(ret) : e \in ret[i]
        /\ Len(ret) >= BicliqueCoverNumber(g)

\* A star of the cover was merged with edges of a second cover node: an entry
\* is no star of g, and the cover is not the whole node set.
C24_Witness ==
    /\ op = "merge_stars(g, t)"
    /\ IsVertexCover(g, arg)
    /\ \E i \in 1..Len(ret) : \A u \in Nodes : ret[i] # edges_at(g, u)
    /\ arg # Nodes
    /\ Cardinality(g) > 2

\* ------------------------------------------------------------------ C25
\* solve_recursive (biclique.py) with any list of indep_edges, each a pair
\* (u, v) of G.edges, when the optimizer reports OPTIMAL for every feasible
\* model.  arg holds k and the arguments, ret the log of the
\* optimizer calls.
MaxIndep == 2

IndepEdgeLists(G) == SeqsUpTo({EdgeKey(e) : e \in G}, MaxIndep)

\* m.status after m.optimize() when every feasible model is solved: an
\* infeasible model is reported so, or the time limit of line 115 ends the
\* solve first.
ExactStatuses(G, k, indep_edges, maximal_con) ==
    IF build_bottom_up_model_v(G, k, indep_edges, maximal_con)
    THEN {"OPTIMAL"} ELSE {"INFEASIBLE", "TIME_LIMIT"}

\* solve_recursive(G, heuristic_sol, indep_edges, maximal_con), lines 146-147.
SolveRecursiveFrom ==
    /\ op = "load"
    /\ \E indep_edges \in IndepEdgeLists(g), maximal_con \in BOOLEAN :
          arg' = [k |-> Len(indep_edges), indep_edges |-> indep_edges,
                  maximal_con |-> maximal_con]
    /\ op' = "solve_recursive"
    /\ ret' = <<>>
    /\ UNCHANGED <<g, eattr, nattr, store, report>>

\* The loop with k left as it is after a solve that is not optimal.
RecursiveStepSameK ==
    /\ op = "solve_recursive"
    /\ Len(ret) < 2
    /\ \E status \in ExactStatuses(g, arg.k, arg.indep_edges, arg.maximal_con) :
          /\ ret' = Append(ret, [k |-> arg.k, status |-> status])
          /\ op' = IF status = "OPTIMAL" THEN "solve_recursive returned" ELSE op
          /\ arg' = arg
    /\ UNCHANGED <<g, eattr, nattr, store, report>>

\* One pass of the loop of solve_recursive, lines 148-156.
RecursiveStep ==
    /\ op = "solve_recursive"
    /\ \E status \in ExactStatuses(g, arg.k, arg.indep_edges, arg.maximal_con) :
          /\ ret' = Append(ret, [k |-> arg.k, status |-> status])
          /\ IF status = "OPTIMAL"
             THEN /\ op' = "solve_recursive returned"
                  /\ arg' = arg
             ELSE /\ op' = op
                  /\ arg' = [arg EXCEPT !.k = @ + 1]
    /\ UNCHANGED <<g, eattr, nattr, store, report>>

NextRecursive ==
    \/ SolveRecursiveFrom
    \/ RecursiveStep

\* The loop runs on its own: a pass that can be made is made.
SpecRecursive == InitCover /\ [][NextRecursive]_vars /\ WF_vars(RecursiveStep)

\* k is the smallest number >= len(indep_edges) whose bottom-up model is
\* feasible.
IsSmallestFeasibleK(k) ==
    /\ k >= Len(arg.indep_edges)
    /\ build_bottom_up_model_v(g, k, arg.indep_edges, arg.maximal_con)
    /\ \A j \in Len(arg.indep_edges)..(k - 1) :
          ~build_bottom_up_model_v(g, j, arg.indep_edges, arg.maximal_con)

\* k started at len(indep_edges) and went up by one after every solve that
\* was not optimal.
KCountsUp ==
    /\ \A i \in 1..Len(ret) :
          /\ ret[i].k = Len(arg.indep_edges) + i - 1
          /\ i < Len(ret) => ret[i].status # "OPTIMAL"
    /\ op = "solve_recursive" => arg.k = Len(arg.indep_edges) + Len(ret)
    /\ op = "solve_recursive returned" =>
          /\ ret # <<>>
          /\ ret[Len(ret)].status = "OPTIMAL"
          /\ arg.k = ret[Len(ret)].k

\* The pairs of indep_edges are different edges of g no two of which lie in
\* a common biclique.
IsIndependentList(G, indep_edges) ==
    \A i, j \in 1..Len(indep_edges) :
        i # j => LET e1 == {indep_edges[i][1], indep_edges[i][2]}
                     e2 == {indep_edges[j][1], indep_edges[j][2]}
                 IN  e1 # e2 /\ ~InCommonBiclique(G, e1, e2)

\* C25 as stated: solve_recursive terminates; k starts at len(indep_edges),
\* goes up by one after each solve that is not optimal and never down; the
\* function returns at the smallest k >= len(indep_edges) whose model is
\* feasible, and that k is the minimum biclique cover number whenever
\* len(indep_edges) does not exceed it.
C25_ReturnsCoverNumber ==
    /\ [](op \in {"solve_recursive", "solve_recursive returned"} => KCountsUp)
    /\ [](op = "solve_recursive returned" =>
            /\ IsSmallestFeasibleK(arg.k)
            /\ Len(arg.indep_edges) <= BicliqueCoverNumber(g) => arg.k = BicliqueCoverNumber(g))
    /\ (op = "solve_recursive" ~> op = "solve_recursive returned")

\* C25: solve_recursive terminates; k starts at len(indep_edges), goes up by
\* one after each solve that is not optimal and never down; the function
\* returns at the smallest k >= len(indep_edges) whose model is feasible.
\* That k is the minimum biclique cover number when indep_edges lists
\* different edges no two of which lie in a common biclique; it is never
\* smaller.
C25_TerminatesAtSmallestFeasibleK ==
    /\ [](op \in {"solve_recursive", "solve_recursive returned"} => KCountsUp)
    /\ [](op = "solve_recursive returned" =>
            /\ IsSmallestFeasibleK(arg.k)
            /\ arg.k >= BicliqueCoverNumber(g)
            /\ IsIndependentList(g, arg.indep_edges) => arg.k = BicliqueCoverNumber(g))
    /\ (op = "solve_recursive" ~> op = "solve_recursive returned")

\* One edge was given, the model for k = 1 was infeasible and the call
\* returned at k = 2, the cover number.
C25_Witness ==
    /\ op = "solve_recursive returned"
    /\ Len(arg.indep_edges) = 1
    /\ Len(ret) = 2
    /\ ret[1].status = "INFEASIBLE"
    /\ arg.k = 2
    /\ BicliqueCoverNumber(g) = 2

\* ------------------------------------------------------------------ C26
\* CGModel._do_solve (model.py) on a CGModel as __init__ leaves it.  One step
\* is one pass of the column-generation loop; the optimizer's answers (the
\* times, the statuses, the duals and with them the column the pricing
\* problem returns) are choices of the environment.  ret is the master:
\* x the number of variables x_0 .. x_{x-1}, bicliques the list (position i + 1
\* holds bicliques[i]), cover_constraints the set of variable indices summed
\* in the cover constraint of each edge.
MaxColumnsAdded == 2

\* list({(min(u, v), max(u, v)) for u, v in g.edges}), line 324: the edges in
\* any order.
RECURSIVE EdgeOrders(_)
EdgeOrders(E) ==
    IF E = {} THEN {<<>>}
    ELSE UNION {{<<e>> \o rest : rest \in EdgeOrders(E \ {e})} : e \in E}

\* What _solve_pricing can return besides None, lines 418-428: the edges
\* between the two sides of a biclique of G, at least one (their duals sum to
\* more than 1).
PricingBicliques(G) == {EdgesBetween(b.L, b.R) : b \in Bicliques(G)}

\* Lines 336-342: the cover constraint of e sums the x[i] with e in bicliques[i].
InitialCover(G, bicliques) ==
    [e \in G |-> {i - 1 : i \in {j \in 1..Len(bicliques) : e \in bicliques[j]}}]

\* Lines 370-375 with the new variable left out of the rebuilt constraints.
ReplaceCoverOldOnly(cover_constraints, bicliques, new_biclique, idx) ==
    [e \in DOMAIN cover_constraints |->
        IF e \in new_biclique
        THEN {i - 1 : i \in {j \in 1..Len(bicliques) : e \in bicliques[j]}}
        ELSE cover_constraints[e]]

\* Lines 370-375: the constraint of every edge of the new biclique is removed
\* and built again, from the bicliques before the append and x[idx].
ReplaceCover(cover_constraints, bicliques, new_biclique, idx) ==
    [e \in DOMAIN cover_constraints |->
        IF e \in new_biclique
        THEN {i - 1 : i \in {j \in 1..Len(bicliques) : e \in bicliques[j]}} \cup {idx}
        ELSE cover_constraints[e]]

\* The ways a pass ends the loop: no time left (lines 351 and 362), a
\* time-out status of the master (line 357), no column priced out (line 366).
LoopExits == {"remaining_time", "TIMEOUT_STATUS", "no column"}

\* _do_solve up to the loop, lines 329-344.
DoSolve ==
    /\ op = "load"
    /\ \E _edges \in EdgeOrders(g) :
          LET bicliques == [i \in 1..Len(_edges) |-> {_edges[i]}]
          IN  ret' = [x |-> Len(bicliques), bicliques |-> bicliques,
                      cover_constraints |-> InitialCover(g, bicliques),
                      _columns_added |-> 0]
    /\ op' = "_do_solve"
    /\ arg' = <<>>
    /\ UNCHANGED <<g, eattr, nattr, store, report>>

\* One pass of the loop, lines 347-378.
ColumnGenerationPass ==
    /\ op = "_do_solve"
    /\ \/ /\ \E exit \in LoopExits : arg' = exit
          /\ op' = "_do_solve returned"
          /\ ret' = ret
       \/ /\ ret._columns_added < MaxColumnsAdded
          /\ \E new_biclique \in PricingBicliques(g) :
                LET idx == ret.x
                IN  ret' = [x |-> ret.x + 1,
                            bicliques |-> Append(ret.bicliques, new_biclique),
                            cover_constraints |->
                                ReplaceCover(ret.cover_constraints, ret.bicliques, new_biclique, idx),
                            _columns_added |-> ret._columns_added + 1]
          /\ op' = op
          /\ arg' = arg
    /\ UNCHANGED <<g, eattr, nattr, store, report>>

NextColumnGeneration ==
    \/ DoSolve
    \/ ColumnGenerationPass

SpecColumnGeneration == InitCover /\ [][NextColumnGeneration]_vars

\* The master at the start of a pass.
MasterInvariant ==
    /\ ret.x = Len(ret.bicliques)
    /\ ret.x = Cardinality(g) + ret._columns_added
    /\ \A i \in 1..Cardinality(g) : \E e \in g : ret.bicliques[i] = {e}
    /\ \A e \in g : \E i \in 1..Cardinality(g) : ret.bicliques[i] = {e}
    /\ \A e \in g :
          ret.cover_constraints[e] = {i \in 0..(ret.x - 1) : e \in ret.bicliques[i + 1]}

\* A pass leaves every variable and every biclique in its place.
ColumnsKept ==
    op = "_do_solve" =>
        /\ ret'.x >= ret.x
        /\ Len(ret'.bicliques) >= Len(ret.bicliques)
        /\ \A i \in 1..Len(ret.bicliques) : ret'.bicliques[i] = ret.bicliques[i]

\* C26: at the start of every pass of the column-generation loop the master
\* has one variable x_i per entry of bicliques, len(x) == len(bicliques) ==
\* number of edges + columns_added, the first number-of-edges entries are the
\* singleton bicliques of the edges, and the cover constraint of every edge e
\* sums exactly the variables whose biclique contains e; a column, once
\* added, is never removed.
C26_MasterMatchesBicliques ==
    /\ [](op = "_do_solve" => MasterInvariant)
    /\ [][ColumnsKept]_vars

\* Two columns were added, the second one sharing an edge with the first.
C26_Witness ==
    /\ op = "_do_solve"
    /\ ret._columns_added = 2
    /\ Cardinality(g) >= 3
    /\ ret.bicliques[ret.x] # ret.bicliques[ret.x - 1]
    /\ ret.bicliques[ret.x] \cap ret.bicliques[ret.x - 1] # {}

=============================================================================
